---- MODULE Spec2Model ----
(***************************************************************************)
(* Order lifecycle and inventory reservation of the e-commerce backend:    *)
(* controllers/order.controller.js acting on the Product and Order         *)
(* mongoose models.                                                        *)
(*                                                                         *)
(* The database is the collections products, orders and users.  Spec runs *)
(* the order handlers one request at a time, each handler as one action;   *)
(* SpecPayment adds the payment route, SpecProduct the product controller, *)
(* SpecReserved starts from products with inventory already reserved, and  *)
(* SpecTotals keeps the owner and the totals of an order.  SpecConc and    *)
(* SpecConcUpdate run two requests whose awaits (findById, save) interleave.*)
(* SpecConcCancel runs two requests on the same pending order.             *)
(* SpecSnapshot adds the edits and the deletion of a product to SpecTotals,*)
(* SpecDouble computes the totals of an order on IEEE-754 doubles,         *)
(* SpecLifecycle follows orders through the legal moves of their status,   *)
(* SpecAccess puts protect and restrictTo in front of the order routes,    *)
(* and SpecUsers runs the routes that write the users collection.          *)
(*                                                                         *)
(* Of an order Spec keeps the fields the handlers branch on or copy into   *)
(* the inventory: items (product, quantity), status, paymentStatus.        *)
(***************************************************************************)
EXTENDS Integers, Sequences, FiniteSets, TLC

VARIABLES products, orders, nextId, reqs, users

vars == <<products, orders, nextId, reqs, users>>

(***************************************************************************)
(* Bounds of the model.                                                    *)
(***************************************************************************)
MaxQty == 3        \* largest inventory.quantity a product starts with
MaxItemQty == 2    \* largest quantity of one requested line item
MaxItems == 2      \* most line items in one createOrder request
MaxOrders == 2     \* most orders created in one behaviour

ProductIds == {"p1"}                     \* ids of the products in the collection
RequestIds == ProductIds \cup {"p9"}     \* "p9" is a well-formed id of no product
OrderIds == 1..MaxOrders

\* the accounts: two customers and an administrator
UserIds == {"u1", "u2", "a1"}
InitUsers ==
  [u \in UserIds |-> [role |-> IF u = "a1" THEN "admin" ELSE "customer", isActive |-> TRUE]]

Absent == "absent"                       \* a field the request body does not carry

\* enum of orderSchema.status
Statuses == {"pending", "processing", "shipped", "delivered", "cancelled"}

\* enum of orderSchema.paymentStatus
PaymentStatuses == {"pending", "processing", "paid", "failed", "refunded"}

\* paymentStatus values the model sends to updateOrderPayment
PaymentInputs == {"paid", "failed"}

\* status values the model sends to updateOrder; PUT /:id does not validate
\* the body, so a value outside the enum reaches the controller
StatusInputs == Statuses \cup {Absent, "returned"}

Max(a, b) == IF a >= b THEN a ELSE b

\* the line items of a request; the quantity of an item whose product is
\* missing is never read (line 196), so one quantity stands for all
Items ==
  [product : ProductIds, quantity : 1..MaxItemQty]
    \cup [product : RequestIds \ ProductIds, quantity : {1}]

RECURSIVE SeqsUpTo(_, _)
SeqsUpTo(S, n) ==
  IF n = 0 THEN {<<>>}
  ELSE LET shorter == SeqsUpTo(S, n - 1)
       IN shorter \cup {Append(s, x) : s \in {t \in shorter : Len(t) = n - 1}, x \in S}

\* request bodies that pass orderValidators.createOrder: a non-empty array
\* of items with a mongo id and an integer quantity >= 1
ItemLists == SeqsUpTo(Items, MaxItems) \ {<<>>}

(***************************************************************************)
(* Product model (models/product.model.js).                                *)
(***************************************************************************)

\* mutant of ValidInventory: inventory.reserved declared without min: 0
ValidInventoryReservedUnchecked(doc) ==
  /\ doc.quantity >= 0
  /\ doc.available >= 0

\* the min validators of inventory.quantity, .reserved and .available
ValidInventory(doc) ==
  /\ doc.quantity >= 0
  /\ doc.reserved >= 0
  /\ doc.available >= 0

\* productSchema.pre('save'): available is recomputed after validation
PreSave(doc) ==
  [doc EXCEPT !.available = Max(0, doc.quantity - doc.reserved)]

InventoryPaths == {"quantity", "reserved", "available"}

\* product.save() of a document loaded as `loaded` and changed to `doc`:
\* after validation and the pre-save hook, the paths whose value differs from
\* the loaded one are written; the other paths keep what the collection holds
SaveProduct(db, id, loaded, doc) ==
  LET final == PreSave(doc)
  IN [db EXCEPT ![id] =
        [f \in DOMAIN db[id] |->
           IF f \in InventoryPaths /\ final[f] # loaded[f] THEN final[f] ELSE db[id][f]]]

(***************************************************************************)
(* Inventory steps of the order controller.  The state of a loop over      *)
(* items is the collection as written so far (db) and whether a save()     *)
(* has thrown; a throw leaves the loop and the handler.                    *)
(***************************************************************************)

\* mutant of ReserveDoc: reserved = quantity in place of reserved += quantity
ReserveDocAssigns(product, qty) ==
  [product EXCEPT !.reserved = qty,
                  !.available = product.quantity - qty]

\* createOrder, lines 216-218: the in-memory changes of a reservation
ReserveDoc(product, qty) ==
  [product EXCEPT !.reserved = product.reserved + qty,
                  !.available = product.quantity - (product.reserved + qty)]

\* mutant of ConsumeDoc: line 299 (reserved -= quantity) left out
ConsumeDocKeepsReserved(product, qty) ==
  [product EXCEPT !.quantity = product.quantity - qty,
                  !.available = (product.quantity - qty) - product.reserved]

\* mutant of ConsumeDoc: lines 299 and 300 left out, quantity alone is lowered
ConsumeDocQuantityOnly(product, qty) ==
  [product EXCEPT !.quantity = product.quantity - qty]

\* updateOrder 'shipped', lines 298-300: the in-memory changes of a consumption
ConsumeDoc(product, qty) ==
  [product EXCEPT !.quantity = product.quantity - qty,
                  !.reserved = product.reserved - qty,
                  !.available = (product.quantity - qty) - (product.reserved - qty)]

\* mutant of ReleaseDoc: the body of the 'shipped' case pasted into 'cancelled'
ReleaseDocConsumes(product, qty) == ConsumeDoc(product, qty)

\* updateOrder 'cancelled', lines 286-287, and deleteOrder, lines 357-358:
\* the in-memory changes of a release
ReleaseDoc(product, qty) ==
  [product EXCEPT !.reserved = product.reserved - qty,
                  !.available = product.quantity - (product.reserved - qty)]

NotFoundMessage(id) == <<"Product not found with ID: ", id>>
InsufficientMessage(name) == <<"Insufficient inventory for product: ", name>>

\* mutant of ReserveItem: the continue of line 201 left out, so an item
\* short of inventory is reported and reserved all the same
ReserveItemNoContinue(st, item) ==
  IF st.thrown THEN st
  ELSE IF item.product \notin DOMAIN st.db
  THEN [st EXCEPT !.errorMessages = Append(@, NotFoundMessage(item.product))]
  ELSE LET product == st.db[item.product]
           doc == ReserveDoc(product, item.quantity)
           errs == IF product.available < item.quantity
                   THEN Append(st.errorMessages, InsufficientMessage(item.product))
                   ELSE st.errorMessages
       IN IF ~ValidInventory(doc)
          THEN [st EXCEPT !.errorMessages = errs, !.thrown = TRUE]
          ELSE [st EXCEPT !.errorMessages = errs,
                          !.orderItems = Append(@, item),
                          !.db = SaveProduct(st.db, item.product, product, doc)]

\* one iteration of the loop of createOrder (lines 190-220)
ReserveItem(st, item) ==
  IF st.thrown THEN st
  ELSE IF item.product \notin DOMAIN st.db
  THEN [st EXCEPT !.errorMessages = Append(@, NotFoundMessage(item.product))]
  ELSE LET product == st.db[item.product]
           doc == ReserveDoc(product, item.quantity)
       IN IF product.available < item.quantity
          THEN [st EXCEPT !.errorMessages = Append(@, InsufficientMessage(item.product))]
          ELSE IF ~ValidInventory(doc)
          THEN [st EXCEPT !.thrown = TRUE]
          ELSE [st EXCEPT !.orderItems = Append(@, item),
                          !.db = SaveProduct(st.db, item.product, product, doc)]

\* one iteration of the loops that return reserved inventory
\* (updateOrder lines 283-290, deleteOrder lines 354-361)
ReleaseItem(st, item) ==
  IF st.thrown \/ item.product \notin DOMAIN st.db THEN st
  ELSE LET product == st.db[item.product]
           doc == ReleaseDoc(product, item.quantity)
       IN IF ~ValidInventory(doc)
          THEN [st EXCEPT !.thrown = TRUE]
          ELSE [st EXCEPT !.db = SaveProduct(st.db, item.product, product, doc)]

\* one iteration of the loop of updateOrder 'shipped' (lines 295-303)
ConsumeItem(st, item) ==
  IF st.thrown \/ item.product \notin DOMAIN st.db THEN st
  ELSE LET product == st.db[item.product]
           doc == ConsumeDoc(product, item.quantity)
       IN IF ~ValidInventory(doc)
          THEN [st EXCEPT !.thrown = TRUE]
          ELSE [st EXCEPT !.db = SaveProduct(st.db, item.product, product, doc)]

LoopStart(db) ==
  [db |-> db, orderItems |-> <<>>, errorMessages |-> <<>>, thrown |-> FALSE]

RECURSIVE ReserveAll(_, _)
ReserveAll(st, items) ==
  IF items = <<>> THEN st ELSE ReserveAll(ReserveItem(st, Head(items)), Tail(items))

RECURSIVE ReleaseAll(_, _)
ReleaseAll(st, items) ==
  IF items = <<>> THEN st ELSE ReleaseAll(ReleaseItem(st, Head(items)), Tail(items))

RECURSIVE ConsumeAll(_, _)
ConsumeAll(st, items) ==
  IF items = <<>> THEN st ELSE ConsumeAll(ConsumeItem(st, Head(items)), Tail(items))

(***************************************************************************)
(* Responses.  A handler answers res.status(code).json(..) or passes an    *)
(* error to next(): an ApiError with its statusCode, message and errors,   *)
(* or the ValidationError of mongoose, which carries no statusCode (0).    *)
(***************************************************************************)
Ok(code, message) == [code |-> code, message |-> message, errors |-> <<>>]
ApiError(code, message, errors) == [code |-> code, message |-> message, errors |-> errors]
ValidationError == [code |-> 0, message |-> "ValidationError", errors |-> <<>>]

(***************************************************************************)
(* The handlers, each from the database (db, ords, next id) and the        *)
(* request to the database it leaves and the response.                     *)
(***************************************************************************)
Outcome(db, ords, nid, res) ==
  [products |-> db, orders |-> ords, nextId |-> nid, res |-> res]

NewOrder(items) ==
  [items |-> items, status |-> "pending", paymentStatus |-> "pending"]

\* mutant of createOrder: a rejected request gives its reservations back
createOrderRollsBack(db, ords, nid, items) ==
  LET st == ReserveAll(LoopStart(db), items)
  IN IF Len(items) = 0
     THEN Outcome(db, ords, nid, ApiError(400, "Order must contain at least one item", <<>>))
     ELSE IF st.thrown
     THEN Outcome(st.db, ords, nid, ValidationError)
     ELSE IF Len(st.errorMessages) > 0
     THEN Outcome(db, ords, nid, ApiError(400, "Order validation failed", st.errorMessages))
     ELSE Outcome(st.db,
                  [i \in DOMAIN ords \cup {nid} |->
                     IF i = nid THEN NewOrder(st.orderItems) ELSE ords[i]],
                  nid + 1,
                  Ok(201, "Order created successfully"))

\* createOrder, lines 169-259
createOrder(db, ords, nid, items) ==
  IF Len(items) = 0
  THEN Outcome(db, ords, nid, ApiError(400, "Order must contain at least one item", <<>>))
  ELSE LET st == ReserveAll(LoopStart(db), items)
       IN IF st.thrown
          THEN Outcome(st.db, ords, nid, ValidationError)
          ELSE IF Len(st.errorMessages) > 0
          THEN Outcome(st.db, ords, nid,
                       ApiError(400, "Order validation failed", st.errorMessages))
          ELSE Outcome(st.db,
                       [i \in DOMAIN ords \cup {nid} |->
                          IF i = nid THEN NewOrder(st.orderItems) ELSE ords[i]],
                       nid + 1,
                       Ok(201, "Order created successfully"))

\* mutant of StatusEffect: 'delivered' handled like 'shipped'
StatusEffectDeliveredConsumes(db, order, updates) ==
  IF updates.status # Absent /\ updates.status # order.status
  THEN IF updates.status = "cancelled"
       THEN ReleaseAll(LoopStart(db), order.items)
       ELSE IF updates.status \in {"shipped", "delivered"}
       THEN ConsumeAll(LoopStart(db), order.items)
       ELSE LoopStart(db)
  ELSE LoopStart(db)

\* mutant of StatusEffect: line 279 without the test against order.status
StatusEffectIgnoresCurrent(db, order, updates) ==
  IF updates.status # Absent
  THEN IF updates.status = "cancelled"
       THEN ReleaseAll(LoopStart(db), order.items)
       ELSE IF updates.status = "shipped"
       THEN ConsumeAll(LoopStart(db), order.items)
       ELSE LoopStart(db)
  ELSE LoopStart(db)

\* updateOrder, lines 279-311: the inventory side of a status change
StatusEffect(db, order, updates) ==
  IF updates.status # Absent /\ updates.status # order.status
  THEN IF updates.status = "cancelled"
       THEN ReleaseAll(LoopStart(db), order.items)
       ELSE IF updates.status = "shipped"
       THEN ConsumeAll(LoopStart(db), order.items)
       ELSE LoopStart(db)
  ELSE LoopStart(db)

\* mutant of updateOrder: a delivered or cancelled order takes no other status
updateOrderTerminalGuard(db, ords, nid, id, updates) ==
  IF id \notin DOMAIN ords
  THEN Outcome(db, ords, nid, ApiError(404, "Order not found", <<>>))
  ELSE LET order == ords[id]
           st == StatusEffect(db, order, updates)
       IN IF /\ order.status \in {"delivered", "cancelled"}
             /\ updates.status # Absent
             /\ updates.status # order.status
          THEN Outcome(db, ords, nid, ApiError(400, "Invalid status transition", <<>>))
          ELSE IF st.thrown
          THEN Outcome(st.db, ords, nid, ValidationError)
          ELSE IF updates.status = Absent
          THEN Outcome(st.db, ords, nid, Ok(200, "Order updated successfully"))
          ELSE IF updates.status \notin Statuses
          THEN Outcome(st.db, ords, nid, ValidationError)
          ELSE Outcome(st.db, [ords EXCEPT ![id].status = updates.status], nid,
                       Ok(200, "Order updated successfully"))

\* updateOrder, lines 266-330; updates carries the status of the request body.
\* findByIdAndUpdate runs the validators of the paths it sets.
updateOrder(db, ords, nid, id, updates) ==
  IF id \notin DOMAIN ords
  THEN Outcome(db, ords, nid, ApiError(404, "Order not found", <<>>))
  ELSE LET order == ords[id]
           st == StatusEffect(db, order, updates)
       IN IF st.thrown
          THEN Outcome(st.db, ords, nid, ValidationError)
          ELSE IF updates.status = Absent
          THEN Outcome(st.db, ords, nid, Ok(200, "Order updated successfully"))
          ELSE IF updates.status \notin Statuses
          THEN Outcome(st.db, ords, nid, ValidationError)
          ELSE Outcome(st.db, [ords EXCEPT ![id].status = updates.status], nid,
                       Ok(200, "Order updated successfully"))

\* mutant of deleteOrder: the loop of lines 354-361 left out
deleteOrderKeepsReserved(db, ords, nid, id) ==
  IF id \notin DOMAIN ords
  THEN Outcome(db, ords, nid, ApiError(404, "Order not found", <<>>))
  ELSE IF ords[id].status # "pending"
  THEN Outcome(db, ords, nid, ApiError(400, "Only pending orders can be deleted", <<>>))
  ELSE Outcome(db, [i \in DOMAIN ords \ {id} |-> ords[i]], nid,
               Ok(200, "Order deleted successfully"))

\* deleteOrder, lines 337-373
deleteOrder(db, ords, nid, id) ==
  IF id \notin DOMAIN ords
  THEN Outcome(db, ords, nid, ApiError(404, "Order not found", <<>>))
  ELSE IF ords[id].status # "pending"
  THEN Outcome(db, ords, nid, ApiError(400, "Only pending orders can be deleted", <<>>))
  ELSE LET st == ReleaseAll(LoopStart(db), ords[id].items)
       IN IF st.thrown
          THEN Outcome(st.db, ords, nid, ValidationError)
          ELSE Outcome(st.db, [i \in DOMAIN ords \ {id} |-> ords[i]], nid,
                       Ok(200, "Order deleted successfully"))

\* mutant of updateOrderPayment: line 404 without the test of order.status
updateOrderPaymentAnyStatus(db, ords, nid, id, paymentStatus) ==
  IF paymentStatus = Absent
  THEN Outcome(db, ords, nid, ApiError(400, "Payment status is required", <<>>))
  ELSE IF id \notin DOMAIN ords
  THEN Outcome(db, ords, nid, ApiError(404, "Order not found", <<>>))
  ELSE LET order == ords[id]
           status == IF paymentStatus = "paid" THEN "processing" ELSE order.status
       IN Outcome(db,
                  [ords EXCEPT ![id] = [order EXCEPT !.paymentStatus = paymentStatus,
                                                     !.status = status]],
                  nid,
                  Ok(200, "Payment status updated successfully"))

\* updateOrderPayment, lines 380-418
updateOrderPayment(db, ords, nid, id, paymentStatus) ==
  IF paymentStatus = Absent
  THEN Outcome(db, ords, nid, ApiError(400, "Payment status is required", <<>>))
  ELSE IF id \notin DOMAIN ords
  THEN Outcome(db, ords, nid, ApiError(404, "Order not found", <<>>))
  ELSE LET order == ords[id]
           status == IF paymentStatus = "paid" /\ order.status = "pending"
                     THEN "processing" ELSE order.status
       IN Outcome(db,
                  [ords EXCEPT ![id] = [order EXCEPT !.paymentStatus = paymentStatus,
                                                     !.status = status]],
                  nid,
                  Ok(200, "Payment status updated successfully"))

(***************************************************************************)
(* Pricing (order.controller.js lines 421-437).  Amounts are kept in       *)
(* cents.  The prices of the model are multiples of a quarter, so that a   *)
(* price, price * quantity and the subtotal are doubles without rounding;  *)
(* the one rounded operation of calculateTax, subtotal * 0.07, is computed *)
(* as IEEE 754 does, on naturals held as sequences of 15-bit limbs, least  *)
(* significant first.                                                      *)
(***************************************************************************)
Limb == 2 ^ 15

\* big * a + carry, for a and carry below Limb
RECURSIVE MulSmall(_, _, _)
MulSmall(big, a, carry) ==
  IF big = <<>> THEN (IF carry = 0 THEN <<>> ELSE <<carry>>)
  ELSE LET t == Head(big) * a + carry
       IN <<t % Limb>> \o MulSmall(Tail(big), a, t \div Limb)

\* x + y + carry
RECURSIVE AddBig(_, _, _)
AddBig(x, y, carry) ==
  IF x = <<>> /\ y = <<>> THEN (IF carry = 0 THEN <<>> ELSE <<carry>>)
  ELSE LET t == (IF x = <<>> THEN 0 ELSE Head(x)) + (IF y = <<>> THEN 0 ELSE Head(y)) + carry
       IN <<t % Limb>> \o AddBig(IF x = <<>> THEN <<>> ELSE Tail(x),
                                 IF y = <<>> THEN <<>> ELSE Tail(y),
                                 t \div Limb)

RECURSIVE BitsOf(_)
BitsOf(n) == IF n = 0 THEN 0 ELSE 1 + BitsOf(n \div 2)

\* the number of bits of big, whose last limb is not 0
BitLen(big) == (Len(big) - 1) * 15 + BitsOf(big[Len(big)])

\* big \div 2^bits
ShiftRight(big, bits) ==
  LET limbs == bits \div 15
      r == bits % 15
      at(i) == IF i <= Len(big) THEN big[i] ELSE 0
  IN [i \in 1..Max(0, Len(big) - limbs) |->
        (at(i + limbs) \div 2 ^ r) + (at(i + limbs + 1) % 2 ^ r) * 2 ^ (15 - r)]

RECURSIVE ToInt(_)
ToInt(big) == IF big = <<>> THEN 0 ELSE Head(big) + Limb * ToInt(Tail(big))

\* the double of the literal 0.07 is 5044031582654956 * 2^-56; its mantissa
TaxRate == <<20972, 15728, 11796, 143>>

\* quarters * 0.07 for a subtotal of so many quarters of a unit, as the
\* double the multiplication returns, in units of 2^-58: the exact product
\* rounded to 53 significant bits, to nearest, ties to even
TimesTaxRate(quarters) ==
  LET exact == MulSmall(TaxRate, quarters, 0)
      s == BitLen(exact) - 53
      low == IF s = 0 THEN 0 ELSE IF s = 15 THEN exact[1] ELSE exact[1] % 2 ^ s
      odd == IF s = 15 THEN exact[2] % 2 = 1 ELSE (exact[1] \div 2 ^ s) % 2 = 1
      up == s > 0 /\ (low > 2 ^ (s - 1) \/ (low = 2 ^ (s - 1) /\ odd))
      kept == [exact EXCEPT ![1] = exact[1] - low]
  IN IF up THEN AddBig(kept, IF s = 15 THEN <<0, 1>> ELSE <<2 ^ s>>, 0) ELSE kept

\* Number.prototype.toFixed(2) and parseFloat of a double given in units of
\* 2^-58, in cents: the integer n with n / 100 nearest to the double, the
\* larger one of two
ToFixed2(double) ==
  ToInt(ShiftRight(AddBig(MulSmall(double, 200, 0), <<0, 0, 0, 2 ^ 13>>, 0), 59))

\* calculateTax, lines 434-437, of a subtotal in cents
calculateTax(subtotal) ==
  IF subtotal = 0 THEN 0 ELSE ToFixed2(TimesTaxRate(subtotal \div 25))

\* calculateShippingCost, lines 421-431, in cents
calculateShippingCost(shippingMethod) ==
  CASE shippingMethod = "express" -> 1599
    [] shippingMethod = "overnight" -> 2999
    [] OTHER -> 599

(***************************************************************************)
(* The same arithmetic for any price in cents.  A double is held as the    *)
(* natural number of its units of 2^-60, which is exact for the amounts of *)
(* the model (0, or at least 2^-8); an operation computes its exact result *)
(* and rounds it to 53 significant bits, to nearest, ties to even.         *)
(***************************************************************************)

\* big without its leading zero limbs
RECURSIVE Trim(_)
Trim(big) ==
  IF big = <<>> \/ big[Len(big)] # 0 THEN big ELSE Trim(SubSeq(big, 1, Len(big) - 1))

\* big * 2^bits
ShiftLeft(big, bits) ==
  [i \in 1..(bits \div 15) |-> 0] \o MulSmall(big, 2 ^ (bits % 15), 0)

\* bit i of big, bit 0 the least significant
Bit(big, i) ==
  IF i \div 15 + 1 > Len(big) THEN 0 ELSE (big[i \div 15 + 1] \div 2 ^ (i % 15)) % 2

\* x * y
RECURSIVE MulBig(_, _)
MulBig(x, y) ==
  IF y = <<>> THEN <<>>
  ELSE AddBig(MulSmall(x, Head(y), 0), <<0>> \o MulBig(x, Tail(y)), 0)

\* quotient and remainder of big by d, for d below Limb
RECURSIVE DivSmall(_, _)
DivSmall(big, d) ==
  IF big = <<>> THEN [q |-> <<>>, r |-> 0]
  ELSE LET high == DivSmall(Tail(big), d)
           t == high.r * Limb + Head(big)
       IN [q |-> <<t \div d>> \o high.q, r |-> t % d]

\* the rounding of an arithmetic operation on doubles: exact, in any unit,
\* to 53 significant bits in the same unit
RoundDouble(exact) ==
  LET x == Trim(exact)
      s == BitLen(x) - 53
      q == Trim(ShiftRight(x, s))
      up == /\ Bit(x, s - 1) = 1
            /\ \/ Bit(x, s) = 1
               \/ \E i \in 0..(s - 2) : Bit(x, i) = 1
  IN IF x = <<>> \/ s <= 0 THEN x
     ELSE ShiftLeft(IF up THEN AddBig(q, <<1>>, 0) ELSE q, s)

\* the double of a decimal literal or of parseFloat of so many cents: the
\* double nearest to cents / 100
Double(cents) ==
  LET n == Trim(<<cents % Limb, (cents \div Limb) % Limb, cents \div (Limb * Limb)>>)
      d == DivSmall(ShiftLeft(n, 125), 100)
      sticky == AddBig(MulSmall(d.q, 2, 0), IF d.r = 0 THEN <<>> ELSE <<1>>, 0)
  IN Trim(ShiftRight(RoundDouble(sticky), 66))

\* x + y of doubles
DoubleAdd(x, y) == RoundDouble(AddBig(x, y, 0))

\* x * n of a double and a small integer (price * quantity, line 214)
DoubleTimes(x, n) == RoundDouble(MulSmall(x, n, 0))

\* calculateTax, lines 434-437, of a subtotal that is a double: the product
\* with the double of 0.07 is in units of 2^-116, toFixed(2) gives the cents
\* nearest to it (the larger of two), parseFloat their double
calculateTaxDouble(subtotal) ==
  LET product == RoundDouble(MulBig(subtotal, TaxRate))
      cents == ToInt(Trim(ShiftRight(AddBig(MulSmall(product, 200, 0),
                                            ShiftLeft(<<1>>, 116), 0), 117)))
  IN Double(cents)

(***************************************************************************)
(* The order with its owner and its totals.  createOrder and updateOrder   *)
(* above keep the fields that drive the inventory; the operators below     *)
(* complete them with user, shippingMethod, the price of each item,        *)
(* shippingCost, subtotal, tax and totalAmount.                            *)
(***************************************************************************)
ShippingMethods == {"standard", "express", "overnight"}

\* sum of price * quantity over line items (createOrder line 214, and the
\* reduce of orderSchema.pre('save'))
RECURSIVE ItemsTotal(_)
ItemsTotal(items) ==
  IF items = <<>> THEN 0
  ELSE Head(items).price * Head(items).quantity + ItemsTotal(Tail(items))

\* orderSchema.pre('save'), part_002 lines 148-159, of a new document or one
\* whose items are modified
OrderPreSave(doc) ==
  LET subtotal == ItemsTotal(doc.items)
  IN [doc EXCEPT !.subtotal = subtotal,
                 !.totalAmount = subtotal + doc.shippingCost + doc.tax]

\* mutant of PricedOrder: the document built by spreading req.body over it,
\* so that the body's user, status and paymentStatus win
PricedOrderSpreadsBody(db, user, body) ==
  LET orderItems == [n \in 1..Len(body.items) |->
                       [product |-> body.items[n].product,
                        name |-> db[body.items[n].product].name,
                        price |-> db[body.items[n].product].price,
                        quantity |-> body.items[n].quantity]]
      subtotal == ItemsTotal(orderItems)
      shippingCost == calculateShippingCost(body.shippingMethod)
      tax == calculateTax(subtotal)
      totalAmount == subtotal + shippingCost + tax
  IN [user |-> IF "user" \in DOMAIN body THEN body.user ELSE user,
      items |-> orderItems,
      shippingMethod |-> body.shippingMethod,
      shippingCost |-> shippingCost,
      subtotal |-> subtotal,
      tax |-> tax,
      totalAmount |-> totalAmount,
      status |-> IF "status" \in DOMAIN body THEN body.status ELSE "pending",
      paymentStatus |-> IF "paymentStatus" \in DOMAIN body THEN body.paymentStatus
                        ELSE "pending"]

\* createOrder lines 205-249: the document handed to order.save()
PricedOrder(db, user, body) ==
  LET orderItems == [n \in 1..Len(body.items) |->
                       [product |-> body.items[n].product,
                        name |-> db[body.items[n].product].name,
                        price |-> db[body.items[n].product].price,
                        quantity |-> body.items[n].quantity]]
      subtotal == ItemsTotal(orderItems)
      shippingCost == calculateShippingCost(body.shippingMethod)
      tax == calculateTax(subtotal)
      totalAmount == subtotal + shippingCost + tax
  IN [user |-> user,
      items |-> orderItems,
      shippingMethod |-> body.shippingMethod,
      shippingCost |-> shippingCost,
      subtotal |-> subtotal,
      tax |-> tax,
      totalAmount |-> totalAmount,
      status |-> "pending",
      paymentStatus |-> "pending"]

\* createOrder, lines 169-259, for the caller req.user and a body with items
\* and shippingMethod
createOrderTotals(db, ords, nid, caller, body) ==
  LET out == createOrder(db, ords, nid, body.items)
  IN IF out.res.code # 201 THEN out
     ELSE [out EXCEPT !.orders[nid] = OrderPreSave(PricedOrder(db, caller, body))]

\* the reduce of line 214 and of orderSchema.pre('save') on doubles: sum
\* after the items, each price the double of its cents
RECURSIVE DoubleItemsTotal(_, _)
DoubleItemsTotal(sum, items) ==
  IF items = <<>> THEN sum
  ELSE DoubleItemsTotal(
         DoubleAdd(sum, DoubleTimes(Double(Head(items).price), Head(items).quantity)),
         Tail(items))

\* createOrder lines 205-249 with subtotal, shippingCost, tax and totalAmount
\* as the doubles the controller computes; the pre-save hook computes
\* subtotal and totalAmount once more by the same expressions
DoublePricedOrder(db, user, body) ==
  LET orderItems == [n \in 1..Len(body.items) |->
                       [product |-> body.items[n].product,
                        name |-> db[body.items[n].product].name,
                        price |-> db[body.items[n].product].price,
                        quantity |-> body.items[n].quantity]]
      subtotal == DoubleItemsTotal(<<>>, orderItems)
      shippingCost == Double(calculateShippingCost(body.shippingMethod))
      tax == calculateTaxDouble(subtotal)
  IN [user |-> user,
      items |-> orderItems,
      shippingMethod |-> body.shippingMethod,
      shippingCost |-> shippingCost,
      subtotal |-> subtotal,
      tax |-> tax,
      totalAmount |-> DoubleAdd(DoubleAdd(subtotal, shippingCost), tax),
      status |-> "pending",
      paymentStatus |-> "pending"]

\* createOrder, lines 169-259, with the totals as doubles
createOrderDouble(db, ords, nid, caller, body) ==
  LET out == createOrder(db, ords, nid, body.items)
  IN IF out.res.code # 201 THEN out
     ELSE [out EXCEPT !.orders[nid] = DoublePricedOrder(db, caller, body)]

\* the validators findByIdAndUpdate runs on the paths of the update other
\* than status (part_002 lines 18-27 and 95-114)
ValidOrderUpdate(updates) ==
  /\ \A f \in DOMAIN updates \cap {"shippingCost", "subtotal", "tax", "totalAmount"} :
       updates[f] >= 0
  /\ "items" \in DOMAIN updates =>
       \A n \in 1..Len(updates.items) :
         updates.items[n].price >= 0 /\ updates.items[n].quantity >= 1

\* updateOrder, lines 266-330, for a body that carries any of the paths of
\* the order: $set writes the body as it is, and no save hook runs
updateOrderBody(db, ords, nid, id, updates) ==
  LET out == updateOrder(db, ords, nid, id,
                         [status |-> IF "status" \in DOMAIN updates
                                     THEN updates.status ELSE Absent])
  IN IF out.res.code # 200 THEN out
     ELSE IF ~ValidOrderUpdate(updates)
     THEN [out EXCEPT !.orders = ords, !.res = ValidationError]
     ELSE [out EXCEPT !.orders[id] =
             [f \in DOMAIN ords[id] |->
                IF f \in DOMAIN updates THEN updates[f] ELSE ords[id][f]]]

\* what getOrder answers: the status code and the order of the body, if any
Found(order) == [code |-> 200, message |-> "", order |-> <<order>>]
Refused(code, message) == [code |-> code, message |-> message, order |-> <<>>]

\* the error of reading order.user._id when populate() has found no user
TypeError == Refused(0, "TypeError")

\* getOrder, lines 137-162; accounts is the users collection that populate
\* reads, caller the id of req.user
getOrder(ords, accounts, id, caller) ==
  IF id \notin DOMAIN ords
  THEN Refused(404, "Order not found")
  ELSE IF accounts[caller].role # "admin"
  THEN IF ords[id].user \notin DOMAIN accounts
       THEN TypeError
       ELSE IF ords[id].user # caller
       THEN Refused(403, "Not authorized to access this order")
       ELSE Found(ords[id])
  ELSE Found(ords[id])

\* deleteUser, user.controller.js lines 190-212
deleteUser(accounts, id) == [u \in DOMAIN accounts \ {id} |-> accounts[u]]

(***************************************************************************)
(* Product controller (controllers/product.controller.js).  Of a request   *)
(* body only inventory is kept: a record with quantity, and with reserved  *)
(* and available when the body carries them.                               *)
(***************************************************************************)

\* handleValidationErrors of the validation middleware
ValidationFailed == [code |-> 400, message |-> "Validation failed", errors |-> <<>>]

\* body('inventory.quantity').isInt({ min: 0 }) of productValidators.createProduct,
\* which guards POST /api/products and PUT /api/products/:id alike
ValidProductBody(inventory) == inventory.quantity >= 0

\* the document of createProduct, lines 49-68: reserved takes the default of
\* the schema when the body has none, available is computed by the controller
\* and replaces what the body carries
NewProductDoc(inventory) ==
  [quantity |-> inventory.quantity,
   reserved |-> IF "reserved" \in DOMAIN inventory THEN inventory.reserved ELSE 0,
   available |-> inventory.quantity
                   - (IF "reserved" \in DOMAIN inventory THEN inventory.reserved ELSE 0)]

\* createProduct, lines 9-80; id is the _id of the new document
createProduct(db, ords, nid, id, inventory) ==
  IF ~ValidProductBody(inventory)
  THEN Outcome(db, ords, nid, ValidationFailed)
  ELSE LET doc == NewProductDoc(inventory)
       IN IF ~ValidInventory(doc)
          THEN Outcome(db, ords, nid, ValidationError)
          ELSE Outcome([p \in DOMAIN db \cup {id} |-> IF p = id THEN PreSave(doc) ELSE db[p]],
                       ords, nid, Ok(201, "Product created successfully"))

\* updateProduct, lines 261-272: updates.inventory after the controller has
\* set its available
UpdatedInventory(product, inventory) ==
  LET newQuantity == inventory.quantity
      newReserved == IF "reserved" \in DOMAIN inventory THEN inventory.reserved
                     ELSE product.reserved
  IN [f \in DOMAIN inventory \cup {"available"} |->
        IF f = "available" THEN Max(0, newQuantity - newReserved) ELSE inventory[f]]

\* the inventory a later findById reads after $set: { inventory: .. } has
\* replaced the subdocument: a path the update does not carry is gone from
\* the stored document and reads as the default of the schema
StoredInventory(inventory) ==
  [quantity |-> inventory.quantity,
   reserved |-> IF "reserved" \in DOMAIN inventory THEN inventory.reserved ELSE 0,
   available |-> inventory.available]

\* updateProduct, lines 219-289; findByIdAndUpdate runs the validators of the
\* paths of the update and no save hook
updateProduct(db, ords, nid, id, inventory) ==
  IF ~ValidProductBody(inventory)
  THEN Outcome(db, ords, nid, ValidationFailed)
  ELSE IF id \notin DOMAIN db
  THEN Outcome(db, ords, nid, ApiError(404, "Product not found", <<>>))
  ELSE LET updates == UpdatedInventory(db[id], inventory)
       IN IF "reserved" \in DOMAIN updates /\ updates.reserved < 0
          THEN Outcome(db, ords, nid, ValidationError)
          ELSE Outcome([db EXCEPT ![id] = StoredInventory(updates)], ords, nid,
                       Ok(200, "Product updated successfully"))

\* mutant of updateProductBody: the new name and price are written into the
\* line items of the orders that reference the product as well
updateProductBodyCascades(db, ords, nid, id, body) ==
  IF ~ValidProductBody(body.inventory)
  THEN Outcome(db, ords, nid, ValidationFailed)
  ELSE IF id \notin DOMAIN db
  THEN Outcome(db, ords, nid, ApiError(404, "Product not found", <<>>))
  ELSE Outcome([db EXCEPT ![id].name = body.name, ![id].price = body.price],
               [o \in DOMAIN ords |->
                  [ords[o] EXCEPT !.items =
                     [n \in 1..Len(ords[o].items) |->
                        IF ords[o].items[n].product = id
                        THEN [ords[o].items[n] EXCEPT !.name = body.name,
                                                      !.price = body.price]
                        ELSE ords[o].items[n]]]],
               nid, Ok(200, "Product updated successfully"))

\* updateProduct, lines 219-289, for a body with name, price and inventory,
\* the fields productValidators.createProduct requires of PUT /:id as well
updateProductBody(db, ords, nid, id, body) ==
  IF ~ValidProductBody(body.inventory)
  THEN Outcome(db, ords, nid, ValidationFailed)
  ELSE IF id \notin DOMAIN db
  THEN Outcome(db, ords, nid, ApiError(404, "Product not found", <<>>))
  ELSE IF \E p \in DOMAIN db \ {id} : db[p].name = body.name
  THEN Outcome(db, ords, nid, ApiError(400, "Product with this name already exists", <<>>))
  ELSE LET updates == UpdatedInventory(db[id], body.inventory)
       IN IF "reserved" \in DOMAIN updates /\ updates.reserved < 0
          THEN Outcome(db, ords, nid, ValidationError)
          ELSE Outcome([db EXCEPT ![id] =
                          [f \in DOMAIN db[id] |->
                             IF f \in InventoryPaths THEN StoredInventory(updates)[f]
                             ELSE body[f]]],
                       ords, nid, Ok(200, "Product updated successfully"))

\* deleteProduct, lines 295-316
deleteProduct(db, ords, nid, id) ==
  IF id \notin DOMAIN db
  THEN Outcome(db, ords, nid, ApiError(404, "Product not found", <<>>))
  ELSE Outcome([p \in DOMAIN db \ {id} |-> db[p]], ords, nid,
               Ok(200, "Product deleted successfully"))

(***************************************************************************)
(* Authentication and authorization (middleware/auth.middleware.js) and    *)
(* the routes of routes/order.routes.js that pass through them.  The       *)
(* Authorization header of a request is none, a bearer token jwt.verify    *)
(* rejects, one that has expired, or one generateToken signed for an       *)
(* account.                                                                *)
(***************************************************************************)
RegisteredIds == {"u3"}     \* the _id of an account that registers later

Tokens ==
  [kind : {"none", "invalid", "expired"}]
    \cup [kind : {"signed"}, id : UserIds \cup RegisteredIds]

\* what protect hands on: the error given to next(), or req.user
Rejected(code, message) == [error |-> <<ApiError(code, message, <<>>)>>, user |-> <<>>]
Authenticated(id, role) == [error |-> <<>>, user |-> <<[id |-> id, role |-> role]>>]

\* protect, lines 42-91; accounts is the users collection
protect(accounts, token) ==
  IF token.kind = "none" THEN Rejected(401, "Not authorized, no token provided")
  ELSE IF token.kind = "invalid" THEN Rejected(401, "Invalid token")
  ELSE IF token.kind = "expired" THEN Rejected(401, "Token expired")
  ELSE IF token.id \notin DOMAIN accounts THEN Rejected(401, "User not found")
  ELSE IF ~accounts[token.id].isActive THEN Rejected(401, "User account is deactivated")
  ELSE Authenticated(token.id, accounts[token.id].role)

\* mutant of restrictTo: the test of line 98 left out
restrictToAnyRole(roles, user) == <<>>

\* restrictTo, lines 96-105: the error given to next(), if any
restrictTo(roles, user) ==
  IF user.role \notin roles
  THEN <<ApiError(403, "You do not have permission to perform this action", <<>>)>>
  ELSE <<>>

\* isOwnerOrAdmin, lines 110-131, for the id of the route
isOwnerOrAdmin(resourceId, user) ==
  IF user.role = "admin" \/ resourceId = user.id
  THEN <<>>
  ELSE <<ApiError(403, "You do not have permission to access this resource", <<>>)>>

\* a route behind protect and restrictTo('admin') (order.routes.js lines 8-16,
\* 44-69): out is what the controller makes of the request
AdminRoute(db, ords, nid, accounts, token, out) ==
  LET auth == protect(accounts, token)
  IN IF auth.error # <<>> THEN Outcome(db, ords, nid, auth.error[1])
     ELSE IF restrictTo({"admin"}, auth.user[1]) # <<>>
     THEN Outcome(db, ords, nid, restrictTo({"admin"}, auth.user[1])[1])
     ELSE out

\* what getOrders and getUserOrders answer: the ids of the orders of the body
Listed(ids) == [code |-> 200, message |-> "", errors |-> <<>>, orders |-> ids]

\* getOrders, lines 11-77, without filter
getOrders(db, ords, nid) == Outcome(db, ords, nid, Listed(DOMAIN ords))

\* GET /api/orders
GetOrdersRoute(db, ords, nid, accounts, token) ==
  AdminRoute(db, ords, nid, accounts, token, getOrders(db, ords, nid))

\* PUT /api/orders/:id
PutOrderRoute(db, ords, nid, accounts, token, id, updates) ==
  AdminRoute(db, ords, nid, accounts, token, updateOrderBody(db, ords, nid, id, updates))

\* DELETE /api/orders/:id
DeleteOrderRoute(db, ords, nid, accounts, token, id) ==
  AdminRoute(db, ords, nid, accounts, token, deleteOrder(db, ords, nid, id))

\* PATCH /api/orders/:id/payment
PatchPaymentRoute(db, ords, nid, accounts, token, id, paymentStatus) ==
  AdminRoute(db, ords, nid, accounts, token,
             updateOrderPayment(db, ords, nid, id, paymentStatus))

\* getUserOrders, lines 84-130, with the status of the query, if any
getUserOrders(db, ords, nid, caller, status) ==
  Outcome(db, ords, nid,
          Listed({id \in DOMAIN ords :
                    /\ ords[id].user = caller
                    /\ status = Absent \/ ords[id].status = status}))

\* GET /api/orders/my-orders (order.routes.js lines 19-25)
MyOrdersRoute(db, ords, nid, accounts, token, status) ==
  LET auth == protect(accounts, token)
  IN IF auth.error # <<>> THEN Outcome(db, ords, nid, auth.error[1])
     ELSE getUserOrders(db, ords, nid, auth.user[1].id, status)

\* POST /api/orders (order.routes.js lines 28-33)
PostOrderRoute(db, ords, nid, accounts, token, body) ==
  LET auth == protect(accounts, token)
  IN IF auth.error # <<>> THEN Outcome(db, ords, nid, auth.error[1])
     ELSE createOrderTotals(db, ords, nid, auth.user[1].id, body)

(***************************************************************************)
(* Accounts (controllers/auth.controller.js, controllers/user.controller.js*)
(* and routes/user.routes.js).  Of an account the role and isActive are    *)
(* kept; of a request body the role and isActive it carries, if any.       *)
(***************************************************************************)
UserOutcome(accounts, res) == [users |-> accounts, res |-> res]

\* findByIdAndUpdate(id, { $set: updates }) on the users collection
SetUser(accounts, id, updates) ==
  [accounts EXCEPT ![id] =
     [f \in DOMAIN accounts[id] |->
        IF f \in DOMAIN updates THEN updates[f] ELSE accounts[id][f]]]

\* the body without its role (delete updates.role)
WithoutRole(updates) == [f \in DOMAIN updates \ {"role"} |-> updates[f]]

\* register, auth.controller.js lines 67-114; id is the _id of the new
\* account, and the body's own role, if any, is not read
register(accounts, id, body) ==
  IF id \in DOMAIN accounts
  THEN UserOutcome(accounts, ApiError(400, "User with this email already exists", <<>>))
  ELSE UserOutcome([u \in DOMAIN accounts \cup {id} |->
                      IF u = id THEN [role |-> "customer", isActive |-> TRUE]
                      ELSE accounts[u]],
                   Ok(201, "User registered successfully"))

\* mutant of updateUserProfile: lines 246-248 left out
updateUserProfileKeepsRole(accounts, user, updates) ==
  UserOutcome(SetUser(accounts, user.id, updates), Ok(200, "Profile updated successfully"))

\* updateUserProfile, user.controller.js lines 241-277; user is req.user
updateUserProfile(accounts, user, updates) ==
  UserOutcome(SetUser(accounts, user.id, WithoutRole(updates)),
              Ok(200, "Profile updated successfully"))

\* updateUser, user.controller.js lines 143-183; user is req.user
updateUser(accounts, user, id, updates) ==
  IF id \notin DOMAIN accounts
  THEN UserOutcome(accounts, ApiError(404, "User not found", <<>>))
  ELSE UserOutcome(SetUser(accounts, id,
                           IF "role" \in DOMAIN updates /\ user.role # "admin"
                           THEN WithoutRole(updates) ELSE updates),
                   Ok(200, "User updated successfully"))

\* PUT /api/users/profile (user.routes.js lines 25-29)
PutProfileRoute(accounts, token, updates) ==
  LET auth == protect(accounts, token)
  IN IF auth.error # <<>> THEN UserOutcome(accounts, auth.error[1])
     ELSE updateUserProfile(accounts, auth.user[1], updates)

\* PUT /api/users/:id (user.routes.js lines 49-55)
PutUserRoute(accounts, token, id, updates) ==
  LET auth == protect(accounts, token)
  IN IF auth.error # <<>> THEN UserOutcome(accounts, auth.error[1])
     ELSE IF isOwnerOrAdmin(id, auth.user[1]) # <<>>
     THEN UserOutcome(accounts, isOwnerOrAdmin(id, auth.user[1])[1])
     ELSE updateUser(accounts, auth.user[1], id, updates)

\* DELETE /api/users/:id (user.routes.js lines 58-64)
DeleteUserRoute(accounts, token, id) ==
  LET auth == protect(accounts, token)
  IN IF auth.error # <<>> THEN UserOutcome(accounts, auth.error[1])
     ELSE IF isOwnerOrAdmin(id, auth.user[1]) # <<>>
     THEN UserOutcome(accounts, isOwnerOrAdmin(id, auth.user[1])[1])
     ELSE IF id \notin DOMAIN accounts
     THEN UserOutcome(accounts, ApiError(404, "User not found", <<>>))
     ELSE UserOutcome(deleteUser(accounts, id), Ok(200, "User deleted successfully"))

(***************************************************************************)
(* Spec: one request at a time.                                            *)
(***************************************************************************)
NoOrders == [i \in {} |-> NewOrder(<<>>)]

\* a product as createProduct stores it (part_001 lines 49-70) when the body
\* gives inventory.quantity only
NewProduct(quantity) ==
  PreSave([quantity |-> quantity, reserved |-> 0, available |-> quantity - 0])

Init ==
  /\ products \in [ProductIds -> {NewProduct(q) : q \in 0..MaxQty}]
  /\ orders = NoOrders
  /\ nextId = 1
  /\ reqs = <<>>
  /\ users = InitUsers

\* the database after a handler; the response goes to the client
Apply(out) ==
  /\ products' = out.products
  /\ orders' = out.orders
  /\ nextId' = out.nextId
  /\ UNCHANGED <<reqs, users>>

CreateOrder ==
  \E items \in ItemLists :
    /\ nextId <= MaxOrders
    /\ Apply(createOrder(products, orders, nextId, items))

UpdateOrder ==
  \E id \in OrderIds, status \in StatusInputs :
    Apply(updateOrder(products, orders, nextId, id, [status |-> status]))

DeleteOrder ==
  \E id \in OrderIds :
    Apply(deleteOrder(products, orders, nextId, id))

UpdateOrderPayment ==
  \E id \in OrderIds, paymentStatus \in PaymentInputs :
    Apply(updateOrderPayment(products, orders, nextId, id, paymentStatus))

Next ==
  \/ CreateOrder
  \/ UpdateOrder
  \/ DeleteOrder

Spec == Init /\ [][Next]_vars

\* SpecPayment: the same with PATCH /:id/payment.  No other handler reads
\* paymentStatus, so Spec leaves that field at its initial value.
NextPayment ==
  \/ CreateOrder
  \/ UpdateOrder
  \/ DeleteOrder
  \/ UpdateOrderPayment

SpecPayment == Init /\ [][NextPayment]_vars

(***************************************************************************)
(* SpecConc: two createOrder requests in flight.  Each await of the        *)
(* handler is one step: Product.findById with the checks and in-memory     *)
(* changes that follow it, product.save(), and order.save() with the       *)
(* response.  reqs[c] is the handler's frame of client c.                  *)
(***************************************************************************)
Clients == {1, 2}

\* quantities of the products and of the items of the concurrent requests
ConcQuantities == {MaxQty, 100}
ConcItems == [product : {"p1", "p9"}, quantity : {1, 60}]
ConcItemLists == SeqsUpTo(ConcItems, MaxItems) \ {<<>>}

NoDoc == [quantity |-> 0, reserved |-> 0, available |-> 0]
NoResponse == [code |-> 0, message |-> "", errors |-> <<>>]

\* the frame of createOrder at line 190, before the first iteration
NewRequest(items) ==
  [items |-> items, i |-> 1, pc |-> "find", loaded |-> NoDoc, doc |-> NoDoc,
   orderItems |-> <<>>, errorMessages |-> <<>>, res |-> NoResponse]

InitConc ==
  /\ products \in [ProductIds -> {NewProduct(q) : q \in ConcQuantities}]
  /\ orders = NoOrders
  /\ nextId = 1
  /\ reqs \in [Clients -> {NewRequest(items) : items \in ConcItemLists}]
  /\ users = InitUsers

\* createOrder lines 192-218: findById, the two checks, the in-memory changes
FindProduct(c) ==
  LET r == reqs[c]
  IN /\ r.pc = "find"
     /\ r.i <= Len(r.items)
     /\ LET item == r.items[r.i]
        IN reqs' =
             [reqs EXCEPT ![c] =
                IF item.product \notin DOMAIN products
                THEN [r EXCEPT !.errorMessages = Append(@, NotFoundMessage(item.product)),
                               !.i = r.i + 1]
                ELSE IF products[item.product].available < item.quantity
                THEN [r EXCEPT !.errorMessages = Append(@, InsufficientMessage(item.product)),
                               !.i = r.i + 1]
                ELSE [r EXCEPT !.orderItems = Append(@, item),
                               !.loaded = products[item.product],
                               !.doc = ReserveDoc(products[item.product], item.quantity),
                               !.pc = "save"]]
     /\ UNCHANGED <<products, orders, nextId, users>>

\* createOrder line 219: await product.save()
SaveReserved(c) ==
  LET r == reqs[c]
  IN /\ r.pc = "save"
     /\ IF ValidInventory(r.doc)
        THEN /\ products' = SaveProduct(products, r.items[r.i].product, r.loaded, r.doc)
             /\ reqs' = [reqs EXCEPT ![c] = [r EXCEPT !.pc = "find", !.i = r.i + 1]]
        ELSE /\ reqs' = [reqs EXCEPT ![c] = [r EXCEPT !.pc = "done", !.res = ValidationError]]
             /\ UNCHANGED products
     /\ UNCHANGED <<orders, nextId, users>>

\* createOrder lines 223-255: the errors thrown, or order.save() and 201
FinishCreate(c) ==
  LET r == reqs[c]
  IN /\ r.pc = "find"
     /\ r.i > Len(r.items)
     /\ IF Len(r.errorMessages) > 0
        THEN /\ reqs' = [reqs EXCEPT ![c] =
                  [r EXCEPT !.pc = "done",
                            !.res = ApiError(400, "Order validation failed", r.errorMessages)]]
             /\ UNCHANGED <<orders, nextId, users>>
        ELSE /\ orders' = [i \in DOMAIN orders \cup {nextId} |->
                             IF i = nextId THEN NewOrder(r.orderItems) ELSE orders[i]]
             /\ nextId' = nextId + 1
             /\ reqs' = [reqs EXCEPT ![c] =
                  [r EXCEPT !.pc = "done", !.res = Ok(201, "Order created successfully")]]
     /\ UNCHANGED <<products, users>>

NextConc ==
  \E c \in Clients :
    \/ FindProduct(c)
    \/ SaveReserved(c)
    \/ FinishCreate(c)

SpecConc == InitConc /\ [][NextConc]_vars

(***************************************************************************)
(* SpecConcUpdate: a createOrder request (client 1) and an updateOrder     *)
(* request on an order accepted earlier (client 2) in flight.  The awaits  *)
(* of updateOrder are Order.findById, then for every item of the order     *)
(* Product.findById and product.save(), then Order.findByIdAndUpdate.      *)
(***************************************************************************)

\* the quantity a list of line items takes of product p
RECURSIVE Qty(_, _)
Qty(items, p) ==
  IF items = <<>> THEN 0
  ELSE (IF Head(items).product = p THEN Head(items).quantity ELSE 0) + Qty(Tail(items), p)

\* the frame of updateOrder at line 273, before Order.findById
NewUpdateRequest(id, status) ==
  [id |-> id, status |-> status, items |-> <<>>, i |-> 1, pc |-> "order",
   loaded |-> NoDoc, doc |-> NoDoc, res |-> NoResponse]

\* the orders of product p1 that createOrder accepts from a product of
\* quantity q with nothing reserved
AcceptedItemLists(q) ==
  {items \in ItemLists :
     /\ \A n \in 1..Len(items) : items[n].product = "p1"
     /\ Qty(items, "p1") <= q}

InitConcUpdate ==
  \E q \in ConcQuantities, items \in AcceptedItemLists(MaxQty) :
    /\ products =
         createOrder([p \in ProductIds |-> NewProduct(q)], NoOrders, 1, items).products
    /\ orders = createOrder([p \in ProductIds |-> NewProduct(q)], NoOrders, 1, items).orders
    /\ nextId = 2
    /\ reqs \in {[c \in Clients |->
                     IF c = 1 THEN NewRequest(new) ELSE NewUpdateRequest(1, status)] :
                  new \in ConcItemLists, status \in Statuses \ {"pending"}}
    /\ users = InitUsers

\* updateOrder lines 273-279: Order.findById and the test of the status
LoadOrder(c) ==
  LET r == reqs[c]
  IN /\ r.pc = "order"
     /\ reqs' =
          [reqs EXCEPT ![c] =
             IF r.id \notin DOMAIN orders
             THEN [r EXCEPT !.pc = "done", !.res = ApiError(404, "Order not found", <<>>)]
             ELSE IF /\ r.status # orders[r.id].status
                     /\ r.status \in {"cancelled", "shipped"}
                     /\ orders[r.id].items # <<>>
             THEN [r EXCEPT !.pc = "product", !.items = orders[r.id].items]
             ELSE [r EXCEPT !.pc = "update"]]
     /\ UNCHANGED <<products, orders, nextId, users>>

\* updateOrder lines 285-287 and 297-300: Product.findById and the in-memory
\* changes of a release or a consumption
FindForStatus(c) ==
  LET r == reqs[c]
      item == r.items[r.i]
  IN /\ r.pc = "product"
     /\ reqs' =
          [reqs EXCEPT ![c] =
             IF item.product \notin DOMAIN products
             THEN [r EXCEPT !.i = r.i + 1,
                            !.pc = IF r.i + 1 > Len(r.items) THEN "update" ELSE "product"]
             ELSE [r EXCEPT !.loaded = products[item.product],
                            !.doc = IF r.status = "cancelled"
                                    THEN ReleaseDoc(products[item.product], item.quantity)
                                    ELSE ConsumeDoc(products[item.product], item.quantity),
                            !.pc = "write"]]
     /\ UNCHANGED <<products, orders, nextId, users>>

\* updateOrder lines 288 and 301: await product.save()
SaveForStatus(c) ==
  LET r == reqs[c]
  IN /\ r.pc = "write"
     /\ IF ValidInventory(r.doc)
        THEN /\ products' = SaveProduct(products, r.items[r.i].product, r.loaded, r.doc)
             /\ reqs' = [reqs EXCEPT ![c] =
                  [r EXCEPT !.i = r.i + 1,
                            !.pc = IF r.i + 1 > Len(r.items) THEN "update" ELSE "product"]]
        ELSE /\ reqs' = [reqs EXCEPT ![c] = [r EXCEPT !.pc = "done", !.res = ValidationError]]
             /\ UNCHANGED products
     /\ UNCHANGED <<orders, nextId, users>>

\* updateOrder lines 314-326: Order.findByIdAndUpdate and the response
FinishUpdate(c) ==
  LET r == reqs[c]
  IN /\ r.pc = "update"
     /\ orders' = [orders EXCEPT ![r.id].status = r.status]
     /\ reqs' = [reqs EXCEPT ![c] =
          [r EXCEPT !.pc = "done", !.res = Ok(200, "Order updated successfully")]]
     /\ UNCHANGED <<products, nextId, users>>

NextConcUpdate ==
  \E c \in Clients :
    \/ FindProduct(c)
    \/ SaveReserved(c)
    \/ FinishCreate(c)
    \/ LoadOrder(c)
    \/ FindForStatus(c)
    \/ SaveForStatus(c)
    \/ FinishUpdate(c)

SpecConcUpdate == InitConcUpdate /\ [][NextConcUpdate]_vars

(***************************************************************************)
(* SpecConcCancel: two requests in flight on the same pending order 1,     *)
(* a cancellation by updateOrder and either a second cancellation or a     *)
(* deleteOrder.  A second accepted order 2 keeps its own reservation on    *)
(* the products throughout.                                                *)
(***************************************************************************)

\* the frame of deleteOrder at line 339, before Order.findById
NewDeleteRequest(id) ==
  [id |-> id, status |-> "deleted", items |-> <<>>, i |-> 1, pc |-> "dorder",
   loaded |-> NoDoc, doc |-> NoDoc, res |-> NoResponse]

InitConcCancel ==
  \E items1 \in AcceptedItemLists(MaxQty), items2 \in AcceptedItemLists(MaxQty) :
    LET first == createOrder([p \in ProductIds |-> NewProduct(MaxQty)], NoOrders, 1, items1)
        second == createOrder(first.products, first.orders, first.nextId, items2)
    IN /\ second.res.code = 201
       /\ products = second.products
       /\ orders = second.orders
       /\ nextId = second.nextId
       /\ reqs \in {[c \in Clients |-> IF c = 1 THEN NewUpdateRequest(1, "cancelled") ELSE other] :
                     other \in {NewUpdateRequest(1, "cancelled"), NewDeleteRequest(1)}}
       /\ users = InitUsers

\* deleteOrder lines 342-351: Order.findById and the two checks
LoadForDelete(c) ==
  LET r == reqs[c]
  IN /\ r.pc = "dorder"
     /\ reqs' =
          [reqs EXCEPT ![c] =
             IF r.id \notin DOMAIN orders
             THEN [r EXCEPT !.pc = "done", !.res = ApiError(404, "Order not found", <<>>)]
             ELSE IF orders[r.id].status # "pending"
             THEN [r EXCEPT !.pc = "done",
                            !.res = ApiError(400, "Only pending orders can be deleted", <<>>)]
             ELSE IF orders[r.id].items = <<>>
             THEN [r EXCEPT !.pc = "remove"]
             ELSE [r EXCEPT !.pc = "dproduct", !.items = orders[r.id].items]]
     /\ UNCHANGED <<products, orders, nextId, users>>

\* deleteOrder lines 355-358: Product.findById and the in-memory release
FindForDelete(c) ==
  LET r == reqs[c]
      item == r.items[r.i]
  IN /\ r.pc = "dproduct"
     /\ reqs' =
          [reqs EXCEPT ![c] =
             IF item.product \notin DOMAIN products
             THEN [r EXCEPT !.i = r.i + 1,
                            !.pc = IF r.i + 1 > Len(r.items) THEN "remove" ELSE "dproduct"]
             ELSE [r EXCEPT !.loaded = products[item.product],
                            !.doc = ReleaseDoc(products[item.product], item.quantity),
                            !.pc = "dwrite"]]
     /\ UNCHANGED <<products, orders, nextId, users>>

\* deleteOrder line 359: await product.save()
SaveForDelete(c) ==
  LET r == reqs[c]
  IN /\ r.pc = "dwrite"
     /\ IF ValidInventory(r.doc)
        THEN /\ products' = SaveProduct(products, r.items[r.i].product, r.loaded, r.doc)
             /\ reqs' = [reqs EXCEPT ![c] =
                  [r EXCEPT !.i = r.i + 1,
                            !.pc = IF r.i + 1 > Len(r.items) THEN "remove" ELSE "dproduct"]]
        ELSE /\ reqs' = [reqs EXCEPT ![c] = [r EXCEPT !.pc = "done", !.res = ValidationError]]
             /\ UNCHANGED products
     /\ UNCHANGED <<orders, nextId, users>>

\* deleteOrder lines 364-369: order.remove() and the response
RemoveOrder(c) ==
  LET r == reqs[c]
  IN /\ r.pc = "remove"
     /\ orders' = [i \in DOMAIN orders \ {r.id} |-> orders[i]]
     /\ reqs' = [reqs EXCEPT ![c] =
          [r EXCEPT !.pc = "done", !.res = Ok(200, "Order deleted successfully")]]
     /\ UNCHANGED <<products, nextId, users>>

\* updateOrder lines 314-326 when the order may be gone: findByIdAndUpdate
\* of a removed order changes nothing and the response is still 200
FinishUpdateOrGone(c) ==
  IF reqs[c].pc = "update" /\ reqs[c].id \notin DOMAIN orders
  THEN /\ reqs' = [reqs EXCEPT ![c] =
            [reqs[c] EXCEPT !.pc = "done", !.res = Ok(200, "Order updated successfully")]]
       /\ UNCHANGED <<products, orders, nextId, users>>
  ELSE FinishUpdate(c)

NextConcCancel ==
  \E c \in Clients :
    \/ LoadOrder(c)
    \/ FindForStatus(c)
    \/ SaveForStatus(c)
    \/ FinishUpdateOrGone(c)
    \/ LoadForDelete(c)
    \/ FindForDelete(c)
    \/ SaveForDelete(c)
    \/ RemoveOrder(c)

SpecConcCancel == InitConcCancel /\ [][NextConcCancel]_vars

(***************************************************************************)
(* SpecProduct: one request at a time from an empty catalogue, with the    *)
(* product controller: the admin creates the product and edits its         *)
(* inventory between the requests on orders.                               *)
(***************************************************************************)
NoProducts == [p \in {} |-> NoDoc]

\* inventory of a request body that reaches the product validators
InventoryInputs ==
  [quantity : -1..MaxQty]
    \cup [quantity : -1..MaxQty, reserved : -1..MaxQty]
    \cup [quantity : -1..MaxQty, available : {MaxQty}]
    \cup [quantity : -1..MaxQty, reserved : -1..MaxQty, available : {MaxQty}]

InitProduct ==
  /\ products = NoProducts
  /\ orders = NoOrders
  /\ nextId = 1
  /\ reqs = <<>>
  /\ users = InitUsers

CreateProduct ==
  \E id \in ProductIds \ DOMAIN products, inventory \in InventoryInputs :
    Apply(createProduct(products, orders, nextId, id, inventory))

UpdateProduct ==
  \E id \in ProductIds, inventory \in InventoryInputs :
    Apply(updateProduct(products, orders, nextId, id, inventory))

NextProduct ==
  \/ CreateProduct
  \/ UpdateProduct
  \/ CreateOrder
  \/ UpdateOrder
  \/ DeleteOrder

SpecProduct == InitProduct /\ [][NextProduct]_vars

(***************************************************************************)
(* SpecReserved: the order handlers, one request at a time, from products  *)
(* created with any reserved up to their quantity.                         *)
(***************************************************************************)
InitReserved ==
  /\ products \in [ProductIds ->
                     UNION {{PreSave(NewProductDoc([quantity |-> q, reserved |-> r])) :
                               r \in 0..q} : q \in 0..MaxQty}]
  /\ orders = NoOrders
  /\ nextId = 1
  /\ reqs = <<>>
  /\ users = InitUsers

SpecReserved == InitReserved /\ [][NextPayment]_vars

(***************************************************************************)
(* SpecTotals: one request at a time on orders with owner and totals.      *)
(* The callers are the accounts that exist (protect, auth.middleware.js);  *)
(* PUT /api/orders/:id is for an administrator.                            *)
(* reqs holds the answer to the last GET /api/orders/:id.                  *)
(***************************************************************************)
MaxPricedOrders == 1   \* most orders created in one behaviour of SpecTotals

\* prices in cents
Prices == {2000, 5925}

\* names of products
Names == {"Widget", "Gadget"}

\* a product as createProduct stores it, with its name and its price
PricedProduct(quantity, price) ==
  [quantity |-> quantity, reserved |-> 0, available |-> quantity,
   name |-> "Widget", price |-> price]

\* bodies of PUT /api/orders/:id
OrderUpdates ==
  [status : {"shipped"}]
    \cup [subtotal : {0}]
    \cup [tax : {-1}]
    \cup [items : {<<[product |-> "p1", name |-> "Widget", price |-> 100, quantity |-> 1]>>}]

InitTotals ==
  /\ products \in [ProductIds -> {PricedProduct(MaxQty, price) : price \in Prices}]
  /\ orders = NoOrders
  /\ nextId = 1
  /\ reqs = <<>>
  /\ users = InitUsers

Admins == {u \in DOMAIN users : users[u].role = "admin"}

CreateOrderTotals ==
  \E caller \in DOMAIN users, items \in ItemLists, shippingMethod \in ShippingMethods :
    /\ nextId <= MaxPricedOrders
    /\ Apply(createOrderTotals(products, orders, nextId, caller,
                               [items |-> items, shippingMethod |-> shippingMethod]))

UpdateOrderBody ==
  \E caller \in Admins, id \in OrderIds, updates \in OrderUpdates :
    Apply(updateOrderBody(products, orders, nextId, id, updates))

GetOrder ==
  \E caller \in DOMAIN users, id \in OrderIds :
    /\ reqs' = <<getOrder(orders, users, id, caller)>>
    /\ UNCHANGED <<products, orders, nextId, users>>

\* isOwnerOrAdmin('id') of DELETE /api/users/:id: an administrator, or the
\* account itself
DeleteUser ==
  \E caller \in DOMAIN users, id \in DOMAIN users :
    /\ caller \in Admins \/ caller = id
    /\ users' = deleteUser(users, id)
    /\ UNCHANGED <<products, orders, nextId, reqs>>

NextTotals ==
  \/ CreateOrderTotals
  \/ UpdateOrderBody
  \/ GetOrder
  \/ DeleteUser

SpecTotals == InitTotals /\ [][NextTotals]_vars

(***************************************************************************)
(* SpecSnapshot: one request at a time on priced orders, with the product  *)
(* renamed, repriced and deleted between the requests on orders.           *)
(***************************************************************************)

\* bodies of PUT /api/products/:id
ProductBodies == [name : Names, price : Prices, inventory : [quantity : {1, MaxQty}]]

UpdateProductBody ==
  \E id \in ProductIds, body \in ProductBodies :
    Apply(updateProductBody(products, orders, nextId, id, body))

DeleteProduct ==
  \E id \in ProductIds :
    Apply(deleteProduct(products, orders, nextId, id))

NextSnapshot ==
  \/ CreateOrderTotals
  \/ UpdateOrder
  \/ UpdateProductBody
  \/ DeleteProduct

SpecSnapshot == InitTotals /\ [][NextSnapshot]_vars

(***************************************************************************)
(* SpecDouble: orders of up to three products, with prices that are not    *)
(* multiples of a quarter and totals computed as doubles.                  *)
(***************************************************************************)
DoubleProductIds == {"p1", "p2", "p3"}

\* line items of one unit, and requests of up to three different products
DoubleItems == [product : DoubleProductIds, quantity : {1}]
DoubleItemLists ==
  {items \in SeqsUpTo(DoubleItems, 3) \ {<<>>} :
     \A m, n \in 1..Len(items) : m # n => items[m].product # items[n].product}

InitDouble ==
  /\ \E price2 \in {18623, 20}, price3 \in {2157, 30} :
       products = [p \in DoubleProductIds |->
                     PricedProduct(MaxOrders,
                                   IF p = "p1" THEN 370 ELSE IF p = "p2" THEN price2
                                   ELSE price3)]
  /\ orders = NoOrders
  /\ nextId = 1
  /\ reqs = <<>>
  /\ users = InitUsers

CreateOrderDouble ==
  \E caller \in {"u1"}, items \in DoubleItemLists, shippingMethod \in {"standard", "express"} :
    /\ nextId <= MaxOrders
    /\ Apply(createOrderDouble(products, orders, nextId, caller,
                               [items |-> items, shippingMethod |-> shippingMethod]))

NextDouble ==
  \/ CreateOrderDouble
  \/ DeleteOrder

SpecDouble == InitDouble /\ [][NextDouble]_vars

(***************************************************************************)
(* SpecLifecycle: the order handlers, one request at a time, from products *)
(* with inventory already reserved, where every createOrder is accepted    *)
(* and an order moves along the lifecycle only.  reqs holds the reserved   *)
(* each product started with.                                              *)
(***************************************************************************)
LifecycleMoves ==
  {<<"pending", "processing">>, <<"processing", "shipped">>, <<"shipped", "delivered">>,
   <<"pending", "cancelled">>, <<"processing", "cancelled">>}

InitLifecycle ==
  /\ products \in [ProductIds ->
                     UNION {{PreSave(NewProductDoc([quantity |-> q, reserved |-> r])) :
                               r \in 0..q} : q \in 0..MaxQty}]
  /\ orders = NoOrders
  /\ nextId = 1
  /\ reqs = [p \in ProductIds |-> products[p].reserved]
  /\ users = InitUsers

CreateAcceptedOrder ==
  \E items \in ItemLists :
    /\ nextId <= MaxOrders
    /\ createOrder(products, orders, nextId, items).res.code = 201
    /\ Apply(createOrder(products, orders, nextId, items))

MoveOrder ==
  \E id \in DOMAIN orders, status \in Statuses :
    /\ <<orders[id].status, status>> \in LifecycleMoves
    /\ Apply(updateOrder(products, orders, nextId, id, [status |-> status]))

NextLifecycle ==
  \/ CreateAcceptedOrder
  \/ MoveOrder
  \/ DeleteOrder
  \/ UpdateOrderPayment

SpecLifecycle == InitLifecycle /\ [][NextLifecycle]_vars

(***************************************************************************)
(* SpecAccess: one request at a time through the routes, each with its     *)
(* Authorization header.  Accounts are deactivated and deleted between the *)
(* requests, so that tokens outlive them.  reqs holds the last response.   *)
(***************************************************************************)

\* bodies of POST /api/orders, without and with fields the controller does
\* not read
OrderBodies ==
  [items : {<<item>> : item \in Items}, shippingMethod : {"standard"}]
    \cup [items : {<<item>> : item \in Items}, shippingMethod : {"standard"},
          status : {"shipped"}, paymentStatus : {"paid"}, user : {"a1"}]

InitAccess ==
  /\ products = [p \in ProductIds |-> PricedProduct(MaxQty, 2000)]
  /\ orders = NoOrders
  /\ nextId = 1
  /\ reqs = <<>>
  /\ users = InitUsers

\* the database after a route of the orders; the response is kept
ApplyRoute(out) ==
  /\ products' = out.products
  /\ orders' = out.orders
  /\ nextId' = out.nextId
  /\ reqs' = <<out.res>>
  /\ UNCHANGED users

\* the accounts after a route of the users; the response is kept
ApplyUsers(out) ==
  /\ users' = out.users
  /\ reqs' = <<out.res>>
  /\ UNCHANGED <<products, orders, nextId>>

RequestPostOrder ==
  \E token \in Tokens, body \in OrderBodies :
    /\ nextId <= MaxPricedOrders
    /\ ApplyRoute(PostOrderRoute(products, orders, nextId, users, token, body))

RequestPutOrder ==
  \E token \in Tokens, id \in OrderIds, status \in {"processing", "shipped", "cancelled"} :
    ApplyRoute(PutOrderRoute(products, orders, nextId, users, token, id, [status |-> status]))

RequestDeleteOrder ==
  \E token \in Tokens, id \in OrderIds :
    ApplyRoute(DeleteOrderRoute(products, orders, nextId, users, token, id))

RequestPatchPayment ==
  \E token \in Tokens, id \in OrderIds, paymentStatus \in PaymentInputs :
    ApplyRoute(PatchPaymentRoute(products, orders, nextId, users, token, id, paymentStatus))

RequestGetOrders ==
  \E token \in Tokens :
    ApplyRoute(GetOrdersRoute(products, orders, nextId, users, token))

RequestMyOrders ==
  \E token \in Tokens, status \in {Absent, "pending"} :
    ApplyRoute(MyOrdersRoute(products, orders, nextId, users, token, status))

RequestDeactivate ==
  \E token \in Tokens, id \in UserIds :
    ApplyUsers(PutUserRoute(users, token, id, [isActive |-> FALSE]))

RequestDeleteUser ==
  \E token \in Tokens, id \in UserIds :
    ApplyUsers(DeleteUserRoute(users, token, id))

NextAccess ==
  \/ RequestPostOrder
  \/ RequestPutOrder
  \/ RequestDeleteOrder
  \/ RequestPatchPayment
  \/ RequestGetOrders
  \/ RequestMyOrders
  \/ RequestDeactivate
  \/ RequestDeleteUser

SpecAccess == InitAccess /\ [][NextAccess]_vars

(***************************************************************************)
(* SpecUsers: the requests that write the users collection, one at a time: *)
(* POST /api/auth/register, PUT /api/users/profile and PUT /api/users/:id, *)
(* from any caller, administrators included.  No account is deleted.       *)
(***************************************************************************)
Roles == {"customer", "admin"}

\* the request bodies of the two PUT routes: a role, isActive, or both
UserUpdates ==
  [role : Roles] \cup [isActive : BOOLEAN] \cup [role : Roles, isActive : BOOLEAN]

InitUsersOnly ==
  /\ products = NoProducts
  /\ orders = NoOrders
  /\ nextId = 1
  /\ reqs = <<>>
  /\ users = InitUsers

RequestRegister ==
  \E id \in RegisteredIds, body \in UserUpdates :
    ApplyUsers(register(users, id, body))

RequestPutProfile ==
  \E token \in Tokens, updates \in UserUpdates :
    ApplyUsers(PutProfileRoute(users, token, updates))

RequestPutUser ==
  \E token \in Tokens, id \in UserIds \cup RegisteredIds, updates \in UserUpdates :
    ApplyUsers(PutUserRoute(users, token, id, updates))

NextUsers ==
  \/ RequestRegister
  \/ RequestPutProfile
  \/ RequestPutUser

SpecUsers == InitUsersOnly /\ [][NextUsers]_vars

(***************************************************************************)
(* Properties.  A property of a handler is stated of the handler applied   *)
(* to every reachable database and every request of the model.             *)
(***************************************************************************)

\* the indices among 1..n of the items of a request that fail validation
\* against db: the product is missing, or what it has available, less what
\* the earlier valid items of the request took of it, is below the quantity
RECURSIVE FailingUpTo(_, _, _)
FailingUpTo(db, items, n) ==
  IF n = 0 THEN {}
  ELSE LET before == FailingUpTo(db, items, n - 1)
           item == items[n]
           taken == Qty([j \in 1..(n - 1) |->
                           IF j \in before THEN [items[j] EXCEPT !.quantity = 0]
                           ELSE items[j]],
                        item.product)
       IN IF \/ item.product \notin DOMAIN db
             \/ db[item.product].available - taken < item.quantity
          THEN before \cup {n}
          ELSE before

Failing(db, items) == FailingUpTo(db, items, Len(items))

\* the items of a request that pass validation, the others with quantity 0
Passing(db, items) ==
  LET failing == Failing(db, items)
  IN [j \in 1..Len(items) |->
        IF j \in failing THEN [items[j] EXCEPT !.quantity = 0] ELSE items[j]]

OneP1x60 == <<[product |-> "p1", quantity |-> 60]>>

\* C1: two concurrent createOrder requests of 60 units each of a product
\* with quantity 100, reserved 0, available 100 are never both accepted, and
\* once both have answered the product's reserved does not exceed its quantity.
ConcurrentOrdersNotBothAccepted ==
  ( /\ \A c \in Clients : reqs[c].pc = "done" /\ reqs[c].items = OneP1x60
    /\ products["p1"].quantity = 100 )
  => /\ ~(\A c \in Clients : reqs[c].res.code = 201)
     /\ products["p1"].reserved <= products["p1"].quantity

FailingItemsRejectOrder ==
  \A items \in ItemLists :
    LET out == createOrder(products, orders, nextId, items)
        failing == Failing(products, items)
    IN failing # {} =>
         /\ out.res.code = 400
         /\ out.res.message = "Order validation failed"
         /\ out.orders = orders
         /\ out.nextId = nextId
         /\ Len(out.res.errors) = Cardinality(failing)
         /\ \A k \in 1..Len(out.res.errors) :
              \E n \in failing :
                /\ Cardinality({m \in failing : m <= n}) = k
                /\ out.res.errors[k] =
                     IF items[n].product \in DOMAIN products
                     THEN InsufficientMessage(items[n].product)
                     ELSE NotFoundMessage(items[n].product)
         /\ LET passing == Passing(products, items)
            IN \A p \in DOMAIN products :
                 out.products[p].reserved <= products[p].reserved + Qty(passing, p)

\* C3 witness: no order was ever persisted, a rejected request has left its
\* mark, and a request with two failing items can be made
FailingItemsRejectOrderWitness ==
  /\ nextId = 1
  /\ products["p1"].reserved = 1
  /\ \E items \in ItemLists : Cardinality(Failing(products, items)) = 2

\* C4: when createOrder rejects a request, the reservations of its items that
\* passed validation stay: each product's reserved is at least its value
\* before plus the quantities of those items, and no order holds them.
RejectedOrderKeepsReservations ==
  \A items \in ItemLists :
    LET out == createOrder(products, orders, nextId, items)
    IN (out.res.code = 400 /\ out.res.message = "Order validation failed") =>
         /\ out.orders = orders
         /\ LET passing == Passing(products, items)
            IN \A p \in DOMAIN products :
                 out.products[p].reserved >= products[p].reserved + Qty(passing, p)

\* C4 witness: inventory is reserved although no order was ever persisted
RejectedOrderKeepsReservationsWitness ==
  /\ nextId = 1
  /\ orders = NoOrders
  /\ \E p \in DOMAIN products : products[p].reserved = MaxQty

RECURSIVE CancelledTotal(_, _, _, _, _)
CancelledTotal(db, ords, id, seq, p) ==
  IF seq = <<>> THEN 0
  ELSE LET out == updateOrder(db, ords, 0, id, [status |-> Head(seq)])
       IN (IF Head(seq) = "cancelled" THEN db[p].reserved - out.products[p].reserved ELSE 0)
          + CancelledTotal(out.products, out.orders, id, Tail(seq), p)

\* C6: cancelling an order twice does not release twice: over a sequence of
\* status updates of one order, the cancellations take from a product's
\* reserved at most the quantity of the order's line items.
CancelTwiceReleasesOnce ==
  \A id \in DOMAIN orders :
    \A seq \in SeqsUpTo(Statuses, 3) :
      \A p \in DOMAIN products :
        CancelledTotal(products, orders, id, seq, p) <= Qty(orders[id].items, p)

\* C7: updateOrder moving a pending or processing order to shipped takes the
\* quantity of the order's line items from every product's quantity and
\* reserved and leaves its available as it was.
ShipConsumesReservation ==
  \A id \in DOMAIN orders :
    orders[id].status \in {"pending", "processing"} =>
      LET out == updateOrder(products, orders, nextId, id, [status |-> "shipped"])
      IN out.orders[id].status = "shipped" =>
           \A p \in DOMAIN products :
             /\ out.products[p].quantity = products[p].quantity - Qty(orders[id].items, p)
             /\ out.products[p].reserved = products[p].reserved - Qty(orders[id].items, p)
             /\ out.products[p].available = products[p].available

\* C7 witness: a shipped order whose units left quantity, nothing reserved
ShipConsumesReservationWitness ==
  \E id \in DOMAIN orders :
    /\ orders[id].status = "shipped"
    /\ products["p1"].quantity = MaxQty - Qty(orders[id].items, "p1")
    /\ products["p1"].reserved = 0
    /\ products["p1"].available = products["p1"].quantity

\* C8: deleteOrder of a pending order takes the quantity of its line items
\* from every product's reserved and removes the order; deleteOrder of an
\* order in another status fails with 400 and changes nothing.
DeleteOnlyPendingReleases ==
  \A id \in DOMAIN orders :
    LET out == deleteOrder(products, orders, nextId, id)
    IN IF orders[id].status = "pending"
       THEN /\ id \notin DOMAIN out.orders
            /\ \A p \in DOMAIN products :
                 out.products[p].reserved = products[p].reserved - Qty(orders[id].items, p)
       ELSE /\ out.res.code = 400
            /\ out.orders = orders
            /\ out.products = products

\* C9: updateOrderPayment stores the paymentStatus it is given, moves the
\* status to processing exactly when that is paid and the status was
\* pending, and changes no product.
PaymentAdvancesPendingOnly ==
  \A id \in DOMAIN orders, paymentStatus \in PaymentStatuses :
    LET out == updateOrderPayment(products, orders, nextId, id, paymentStatus)
    IN /\ out.orders[id].paymentStatus = paymentStatus
       /\ out.orders[id].status =
            IF paymentStatus = "paid" /\ orders[id].status = "pending"
            THEN "processing" ELSE orders[id].status
       /\ out.products = products

\* C9 witness: a paid order in processing whose reservation is still held
PaymentAdvancesPendingOnlyWitness ==
  \E id \in DOMAIN orders :
    /\ orders[id].paymentStatus = "paid"
    /\ orders[id].status = "processing"
    /\ products["p1"].reserved = Qty(orders[id].items, "p1")
    /\ products["p1"].reserved > 0

\* C10: updateOrder with status pending, processing or delivered changes no
\* product, whatever the current status; only the order's status is set.
OtherTransitionsKeepInventory ==
  \A id \in DOMAIN orders, status \in {"pending", "processing", "delivered"} :
    LET out == updateOrder(products, orders, nextId, id, [status |-> status])
    IN /\ out.products = products
       /\ out.orders = [orders EXCEPT ![id].status = status]

\* C10 witness: a delivered order whose reservation is still held
OtherTransitionsKeepInventoryWitness ==
  \E id \in DOMAIN orders :
    /\ orders[id].status = "delivered"
    /\ products["p1"].reserved = Qty(orders[id].items, "p1")

\* every product after all the items of an order are released (consume FALSE)
\* or consumed (consume TRUE), with no validator in the way
FullEffect(db, items, consume) ==
  [p \in DOMAIN db |->
     LET n == Qty(items, p)
         quantity == IF consume THEN db[p].quantity - n ELSE db[p].quantity
     IN [db[p] EXCEPT !.quantity = quantity,
                      !.reserved = db[p].reserved - n,
                      !.available = Max(0, quantity - (db[p].reserved - n))]]

\* C11: when an updateOrder to cancelled or to shipped has answered, either
\* the order is in the target status and the release or consume of all its
\* items is applied, or the status is as before and no product has changed.
StatusAndInventoryChangeTogether ==
  \A id \in DOMAIN orders, status \in {"cancelled", "shipped"} :
    orders[id].status # status =>
      LET out == updateOrder(products, orders, nextId, id, [status |-> status])
      IN \/ /\ out.orders[id].status = status
            /\ out.products = FullEffect(products, orders[id].items, status = "shipped")
         \/ /\ out.orders[id].status = orders[id].status
            /\ out.products = products

\* C12 as claimed: an updateOrder with a status other than the order's
\* succeeds and leaves the order in that status, whatever the inventory of
\* the products.
EveryTransitionSucceeds ==
  \A id \in DOMAIN orders, status \in Statuses :
    status # orders[id].status =>
      LET out == updateOrder(products, orders, nextId, id, [status |-> status])
      IN /\ out.res.code = 200
         /\ out.orders[id].status = status

\* the quantity of the first line item of product p, 0 when there is none
RECURSIVE FirstQty(_, _)
FirstQty(items, p) ==
  IF items = <<>> THEN 0
  ELSE IF Head(items).product = p THEN Head(items).quantity
  ELSE FirstQty(Tail(items), p)

\* releasing (consume FALSE) or consuming (consume TRUE) the items one after
\* the other would bring the quantity, the reserved or the quantity less the
\* reserved of a product below zero
WouldGoNegative(db, items, consume) ==
  \E p \in DOMAIN db :
    /\ Qty(items, p) > 0
    /\ \/ db[p].reserved - Qty(items, p) < 0
       \/ IF consume
          THEN \/ db[p].quantity - Qty(items, p) < 0
               \/ db[p].quantity - db[p].reserved < 0
          ELSE db[p].quantity - (db[p].reserved - FirstQty(items, p)) < 0

\* C12 amended: an updateOrder with a status other than the order's succeeds
\* and leaves the order in that status, from any status to any other, unless
\* the status is cancelled or shipped and the release or consume of the
\* order's items would take a product's quantity, reserved or quantity less
\* reserved below zero; such a request fails with the validation error of
\* the product model and the order keeps its status.
TransitionsSucceedUnlessInventoryNegative ==
  \A id \in DOMAIN orders, status \in Statuses :
    status # orders[id].status =>
      LET out == updateOrder(products, orders, nextId, id, [status |-> status])
      IN IF /\ status \in {"cancelled", "shipped"}
            /\ WouldGoNegative(products, orders[id].items, status = "shipped")
         THEN /\ out.res = ValidationError
              /\ out.orders = orders
         ELSE /\ out.res.code = 200
              /\ out.orders[id].status = status

\* C12 witness: an order back in pending after it was cancelled (nothing is
\* reserved for it any more), which can therefore not be shipped
TransitionsSucceedUnlessInventoryNegativeWitness ==
  \E id \in DOMAIN orders :
    /\ orders[id].status = "pending"
    /\ orders[id].items # <<>>
    /\ \A p \in DOMAIN products : products[p].reserved = 0 /\ products[p].quantity > 0
    /\ WouldGoNegative(products, orders[id].items, TRUE)

\* C13: a createOrder and an updateOrder (to cancelled or shipped, of an
\* order accepted earlier) that run concurrently and both complete leave
\* every product's reserved at its value before the two requests, plus what
\* the createOrder reserved, less what the updateOrder released or consumed.
NoLostInventoryUpdate ==
  ( /\ \A c \in Clients : reqs[c].pc = "done"
    /\ reqs[1].res.code \in {201, 400}
    /\ reqs[2].res.code = 200 )
  => \A p \in DOMAIN products :
       products[p].reserved =
         Qty(orders[1].items, p) + Qty(reqs[1].orderItems, p) - Qty(reqs[2].items, p)

\* C14: every persisted order has subtotal equal to the sum of price times
\* quantity over its line items and totalAmount equal to subtotal plus
\* shippingCost plus tax, after createOrder and after any updateOrder.
OrderTotalsConsistent ==
  \A id \in DOMAIN orders :
    /\ orders[id].subtotal = ItemsTotal(orders[id].items)
    /\ orders[id].totalAmount =
         orders[id].subtotal + orders[id].shippingCost + orders[id].tax

\* 7% of an amount in cents, rounded to the cent, halves upwards
SevenPercent(cents) == (cents * 7 + 50) \div 100

\* C15: an accepted order has shippingCost 5.99, 15.99 or 29.99 for standard,
\* express or overnight (5.99 is also the cost of an unrecognized method),
\* tax equal to 7% of the subtotal rounded to the cent, and totalAmount equal
\* to subtotal plus shippingCost plus tax.
AcceptedOrderPricing ==
  /\ calculateShippingCost("drone") = 599
  /\ \A caller \in DOMAIN users, items \in ItemLists, shippingMethod \in ShippingMethods :
       LET out == createOrderTotals(products, orders, nextId, caller,
                                    [items |-> items, shippingMethod |-> shippingMethod])
           order == out.orders[nextId]
       IN out.res.code = 201 =>
            /\ order.shippingCost =
                 CASE shippingMethod = "standard" -> 599
                   [] shippingMethod = "express" -> 1599
                   [] shippingMethod = "overnight" -> 2999
            /\ order.tax = SevenPercent(order.subtotal)
            /\ order.totalAmount = order.subtotal + order.shippingCost + order.tax

\* C20: getOrder answers 404 for a missing order, 200 with the order for its
\* owner and for an administrator, and 403 without any order data for every
\* other caller.
OnlyOwnerOrAdminReadsOrder ==
  \A caller \in DOMAIN users, id \in OrderIds :
    LET res == getOrder(orders, users, id, caller)
    IN IF id \notin DOMAIN orders
       THEN res.code = 404 /\ res.order = <<>>
       ELSE IF users[caller].role = "admin" \/ orders[id].user = caller
       THEN res.code = 200 /\ res.order = <<orders[id]>>
       ELSE res.code = 403 /\ res.order = <<>>

\* C16: every product has available equal to max(0, quantity - reserved),
\* after any sequence of createProduct, updateProduct, createOrder,
\* updateOrder and deleteOrder, whatever available the callers supply.
AvailableIsDerived ==
  \A p \in DOMAIN products :
    products[p].available = Max(0, products[p].quantity - products[p].reserved)

\* C17: release clamps at zero: cancelling an order through updateOrder, or
\* deleting a pending order, succeeds and leaves every product's reserved at
\* max(0, reserved - quantity of the order's line items).
ReleaseClampsAtZero ==
  \A id \in DOMAIN orders :
    /\ orders[id].status # "cancelled" =>
         LET out == updateOrder(products, orders, nextId, id, [status |-> "cancelled"])
         IN /\ out.res.code = 200
            /\ \A p \in DOMAIN products :
                 out.products[p].reserved =
                   Max(0, products[p].reserved - Qty(orders[id].items, p))
    /\ orders[id].status = "pending" =>
         LET out == deleteOrder(products, orders, nextId, id)
         IN /\ out.res.code = 200
            /\ \A p \in DOMAIN products :
                 out.products[p].reserved =
                   Max(0, products[p].reserved - Qty(orders[id].items, p))

\* C18: every product has quantity, reserved and available of at least 0
\* after any sequence of product and order requests, and a createProduct or
\* updateProduct whose body has a negative quantity or reserved fails and
\* stores nothing.
InventoryNeverNegative ==
  /\ \A p \in DOMAIN products :
       /\ products[p].quantity >= 0
       /\ products[p].reserved >= 0
       /\ products[p].available >= 0
  /\ \A inventory \in InventoryInputs :
       ( \/ inventory.quantity < 0
         \/ ("reserved" \in DOMAIN inventory /\ inventory.reserved < 0) ) =>
         /\ \A id \in ProductIds \ DOMAIN products :
              LET out == createProduct(products, orders, nextId, id, inventory)
              IN out.res.code \notin {200, 201} /\ out.products = products
         /\ \A id \in DOMAIN products :
              LET out == updateProduct(products, orders, nextId, id, inventory)
              IN out.res.code \notin {200, 201} /\ out.products = products

\* C18 witness: an order not cancelled whose release would take reserved
\* below zero
InventoryNeverNegativeWitness ==
  \E id \in DOMAIN orders :
    /\ orders[id].status # "cancelled"
    /\ \E p \in DOMAIN products : products[p].reserved < Qty(orders[id].items, p)
    /\ updateOrder(products, orders, nextId, id, [status |-> "cancelled"]).res
         = ValidationError

\* C19: with the order handlers run one at a time from products with
\* reserved at most quantity, and no updateProduct, every product has
\* reserved at most quantity.
ReservedWithinQuantity ==
  \A p \in DOMAIN products : products[p].reserved <= products[p].quantity

\* C19 witness: a shipped order has lowered quantity down to reserved
ReservedWithinQuantityWitness ==
  /\ \E id \in DOMAIN orders : orders[id].status = "shipped"
  /\ products["p1"].reserved = products["p1"].quantity
  /\ products["p1"].quantity > 0

\* a request whose Authorization header authenticates: a token signed for an
\* account that exists and is active
ValidToken(token) ==
  /\ token.kind = "signed"
  /\ token.id \in DOMAIN users
  /\ users[token.id].isActive

\* the answers of the four admin-only routes of the orders to a request with
\* the given Authorization header, for every id and body of the model
AdminOnlyOutcomes(token) ==
  {GetOrdersRoute(products, orders, nextId, users, token)}
    \cup {PutOrderRoute(products, orders, nextId, users, token, id, updates) :
            id \in OrderIds, updates \in OrderUpdates \cup [status : Statuses]}
    \cup {DeleteOrderRoute(products, orders, nextId, users, token, id) : id \in OrderIds}
    \cup {PatchPaymentRoute(products, orders, nextId, users, token, id, paymentStatus) :
            id \in OrderIds, paymentStatus \in PaymentStatuses}

\* C21: the admin-only routes of the orders (list, updateOrder, deleteOrder,
\* updateOrderPayment) answer 401 to a request without a valid bearer token
\* and 403 to an authenticated caller who is no administrator, and in both
\* cases no order and no product changes.
AdminRoutesRejectOthers ==
  \A token \in Tokens :
    \A out \in AdminOnlyOutcomes(token) :
      IF ~ValidToken(token)
      THEN out.res.code = 401 /\ out.products = products /\ out.orders = orders
      ELSE users[token.id].role # "admin" =>
             out.res.code = 403 /\ out.products = products /\ out.orders = orders

\* C21 witness: a customer was just answered 403 while a pending order that
\* an update to cancelled would release is there
AdminRoutesRejectOthersWitness ==
  /\ reqs # <<>>
  /\ reqs[1].code = 403
  /\ \E id \in DOMAIN orders :
       /\ orders[id].status = "pending"
       /\ products["p1"].reserved = Qty(orders[id].items, "p1")
       /\ products["p1"].reserved > 0

\* C22: an order accepted by createOrder is stored with status pending,
\* paymentStatus pending and the authenticated caller as its user, whatever
\* status, paymentStatus or user the body carries; getUserOrders answers a
\* caller with orders of that caller only.
AcceptedOrderIsPendingAndCallers ==
  \A token \in Tokens :
    /\ \A body \in OrderBodies :
         LET out == PostOrderRoute(products, orders, nextId, users, token, body)
         IN out.res.code = 201 =>
              /\ ValidToken(token)
              /\ out.orders[nextId].status = "pending"
              /\ out.orders[nextId].paymentStatus = "pending"
              /\ out.orders[nextId].user = token.id
    /\ \A status \in Statuses \cup {Absent} :
         LET out == MyOrdersRoute(products, orders, nextId, users, token, status)
         IN out.res.code = 200 =>
              \A id \in out.res.orders : id \in DOMAIN orders /\ orders[id].user = token.id

\* C22 witness: a customer's request was just accepted, and the order is
\* pending and the customer's
AcceptedOrderIsPendingAndCallersWitness ==
  /\ reqs # <<>>
  /\ reqs[1].code = 201
  /\ \E id \in DOMAIN orders :
       /\ orders[id].user \in {"u1", "u2"}
       /\ orders[id].status = "pending"
       /\ orders[id].paymentStatus = "pending"
       /\ \E body \in OrderBodies : "user" \in DOMAIN body /\ body.user # orders[id].user

\* C23: the name and price of a line item are snapshots: an updateProduct
\* that renames or reprices a referenced product, or a deleteProduct of it,
\* leaves every order's item names, item prices, subtotal, tax and
\* totalAmount as they were.
SnapshotsSurviveProductChanges ==
  \A id \in ProductIds :
    /\ \A body \in ProductBodies :
         updateProductBody(products, orders, nextId, id, body).orders = orders
    /\ deleteProduct(products, orders, nextId, id).orders = orders

\* C23 witness: an order keeps the name and the price its product had, and
\* the totals made of them, after the product was renamed and repriced
SnapshotsSurviveProductChangesWitness ==
  \E id \in DOMAIN orders :
    LET order == orders[id]
    IN /\ order.subtotal = ItemsTotal(order.items)
       /\ order.tax = calculateTax(order.subtotal)
       /\ order.totalAmount = order.subtotal + order.shippingCost + order.tax
       /\ \E n \in 1..Len(order.items) :
            LET item == order.items[n]
            IN /\ item.product \in DOMAIN products
               /\ item.name # products[item.product].name
               /\ item.price # products[item.product].price

\* the two lists hold the same line items, each as often
SameItems(a, b) ==
  /\ Len(a) = Len(b)
  /\ \A n \in 1..Len(a) :
       Cardinality({m \in 1..Len(a) : a[m] = a[n]})
         = Cardinality({m \in 1..Len(b) : b[m] = a[n]})

\* C24: two accepted orders of the same line items in any order, with the
\* same shipping method and against the same prices, have the same subtotal,
\* shippingCost, tax and totalAmount.
TotalsIndependentOfItemOrder ==
  \A a, b \in DOMAIN orders :
    ( /\ SameItems(orders[a].items, orders[b].items)
      /\ orders[a].shippingMethod = orders[b].shippingMethod )
    => /\ orders[a].subtotal = orders[b].subtotal
       /\ orders[a].shippingCost = orders[b].shippingCost
       /\ orders[a].tax = orders[b].tax
       /\ orders[a].totalAmount = orders[b].totalAmount

\* what the orders in pending or processing hold of product p
RECURSIVE Outstanding(_, _, _)
Outstanding(ords, ids, p) ==
  IF ids = {} THEN 0
  ELSE LET id == CHOOSE i \in ids : TRUE
       IN (IF ords[id].status \in {"pending", "processing"}
           THEN Qty(ords[id].items, p) ELSE 0)
          + Outstanding(ords, ids \ {id}, p)

\* C25: in a sequential execution where every createOrder is accepted, no
\* product is edited and every order follows the lifecycle, each product's
\* reserved is its initial reserved plus the quantities of the line items
\* that orders in pending or processing hold of it.
ReservedIsInitialPlusOutstanding ==
  \A p \in DOMAIN products :
    products[p].reserved = reqs[p] + Outstanding(orders, DOMAIN orders, p)

\* C25 witness: of two orders one is shipped and one holds its units, on a
\* product that started with a unit reserved
ReservedIsInitialPlusOutstandingWitness ==
  /\ reqs["p1"] = 1
  /\ \E a, b \in DOMAIN orders :
       /\ orders[a].status = "shipped"
       /\ orders[b].status = "processing"
       /\ products["p1"].reserved = 1 + Qty(orders[b].items, "p1")

\* what the requests seq, sent one after the other for order id, take from
\* the reserved of product p: a status is a PUT with that status, "delete"
\* a DELETE
RECURSIVE SubtractedTotal(_, _, _, _, _)
SubtractedTotal(db, ords, id, seq, p) ==
  IF seq = <<>> THEN 0
  ELSE LET out == IF Head(seq) = "delete" THEN deleteOrder(db, ords, 0, id)
                  ELSE updateOrder(db, ords, 0, id, [status |-> Head(seq)])
       IN Max(0, db[p].reserved - out.products[p].reserved)
          + SubtractedTotal(out.products, out.orders, id, Tail(seq), p)

\* C26: over a sequence of status changes and deleteOrder on one order, what
\* is taken from a product's reserved for that order is at most what the
\* order reserved of it at creation; shipping then cancelling, or cancelling
\* then shipping, takes it once.
SubtractedAtMostReserved ==
  \A id \in DOMAIN orders :
    orders[id].status = "pending" =>
      \A seq \in SeqsUpTo(Statuses \cup {"delete"}, 2) :
        \A p \in DOMAIN products :
          SubtractedTotal(products, orders, id, seq, p) <= Qty(orders[id].items, p)

\* C27: when two cancellations, or a cancellation and a deletion, of the same
\* pending order 1 are in flight together, then once both have answered every
\* product has released the reservation of order 1 exactly once: what stays
\* reserved is what order 2 holds.
ReleasedExactlyOnce ==
  (\A c \in Clients : reqs[c].pc = "done") =>
    \A p \in ProductIds : products[p].reserved = Qty(orders[2].items, p)

\* C28: a createOrder request with a non-empty item list is accepted exactly
\* when every product it references exists and, for every product, the
\* quantities of the line items that reference it sum to at most the
\* product's available at the start of the request.
AcceptedIffSumWithinAvailable ==
  \A items \in ItemLists \ {<<>>} :
    (createOrder(products, orders, nextId, items).res.code = 201)
      <=> /\ \A n \in 1..Len(items) : items[n].product \in DOMAIN products
          /\ \A p \in DOMAIN products : Qty(items, p) <= products[p].available

\* C29: an updateOrder request whose status is the order's current status,
\* or that carries no status, leaves every product as it is.
SameStatusChangesNoProduct ==
  \A id \in DOMAIN orders :
    \A status \in {Absent, orders[id].status} :
      updateOrder(products, orders, nextId, id, [status |-> status]).products
        = products

\* an order already cancelled or shipped whose quantity a second release or
\* consumption could still take from reserved, and the repeated request is
\* answered 200 with the product untouched
SameStatusChangesNoProductWitness ==
  \E id \in DOMAIN orders :
    /\ orders[id].status \in {"cancelled", "shipped"}
    /\ Qty(orders[id].items, "p1") > 0
    /\ products["p1"].reserved >= Qty(orders[id].items, "p1")
    /\ LET out == updateOrder(products, orders, nextId, id, [status |-> orders[id].status])
       IN out.res.code = 200 /\ out.products = products

\* the accounts whose role is admin
AdminsOf(accounts) == {u \in DOMAIN accounts : accounts[u].role = "admin"}

\* C30: a register, updateUserProfile or updateUser request of a caller who
\* is not an administrator makes no account an administrator, whatever role
\* its body carries.
NoRoleEscalation ==
  /\ \A id \in RegisteredIds, body \in UserUpdates :
       AdminsOf(register(users, id, body).users) \subseteq AdminsOf(users)
  /\ \A token \in Tokens, updates \in UserUpdates :
       (token.kind = "signed" => token.id \notin AdminsOf(users)) =>
         /\ AdminsOf(PutProfileRoute(users, token, updates).users) \subseteq AdminsOf(users)
         /\ \A id \in UserIds \cup RegisteredIds :
              AdminsOf(PutUserRoute(users, token, id, updates).users) \subseteq AdminsOf(users)

\* the registered account u3, an active customer, asks for the role admin on
\* both PUT routes with a token of its own: both answer 200 and u3 is still
\* a customer
NoRoleEscalationWitness ==
  /\ "u3" \in DOMAIN users
  /\ users["u3"] = [role |-> "customer", isActive |-> TRUE]
  /\ LET token == [kind |-> "signed", id |-> "u3"]
         profile == PutProfileRoute(users, token, [role |-> "admin"])
         byId == PutUserRoute(users, token, "u3", [role |-> "admin", isActive |-> TRUE])
     IN /\ profile.res.code = 200
        /\ byId.res.code = 200
        /\ profile.users["u3"].role = "customer"
        /\ byId.users["u3"].role = "customer"

====
